---- MODULE Spec2Model ----
(***************************************************************************)
(* USB-JR-BAY: a bridge between a host serial link (USB CDC) and a CRSF    *)
(* transmitter module on a half-duplex one-wire UART.                      *)
(*                                                                         *)
(* The module models the two frame assemblers (CDCParser, CRSFParser), the *)
(* CRC and channel codecs, ModuleSync, the CRSFUart transport and the      *)
(* CRSFTask scheduler.  Bytes are integers 0..255; C arrays are sequences, *)
(* so the C element a[i] is the TLA+ element a[i + 1].                     *)
(***************************************************************************)
EXTENDS Integers, Sequences, FiniteSets, TLC

(***************************************************************************)
(* Protocol constants.                                                     *)
(***************************************************************************)
CRSF_MAX_FRAME_SIZE == 64
CRSF_RC_CHANNELS_PACKED_LEN == 22
CRSF_RC_FRAME_LEN == 26
CRSF_SYNC_BYTE == 200
CRSF_ADDRESS_RADIO == 234
CRSF_ADDRESS_RECEIVER == 236
CRSF_ADDRESS_MODULE == 238
CRSF_FRAMETYPE_RC_CHANNELS == 22
CRSF_FRAMETYPE_PING_DEVICES == 40
CRSF_FRAMETYPE_PARAMETER_READ == 44
CRSF_FRAMETYPE_PARAMETER_WRITE == 45
CRSF_FRAMETYPE_COMMAND == 50
CRSF_FRAMETYPE_RADIO_ID == 58
CRSF_SUBCMD_TIMING == 16
CRSF_CHANNEL_CENTER == 992
CRSF_CRC_POLY == 213
CRSF_DEFAULT_PERIOD_US == 4000
CRSF_MIN_PERIOD_US == 1000
CRSF_MAX_PERIOD_US == 50000
FAILSAFE_TIMEOUT_US == 100000
NUM_CHANNELS == 16

\* micros() and the timestamps derived from it are unsigned counters that
\* wrap around; differences are taken modulo the counter range.  The range
\* modelled is 2^30 (TLC integers are 32 bit signed), which leaves
\* every period and timeout of the program far below the wrap.
MicrosRange == 1073741824

Sub32(a, b) == (a - b) % MicrosRange

(***************************************************************************)
(* Bit operations on naturals.                                             *)
(***************************************************************************)
RECURSIVE BitXor(_, _)
BitXor(a, b) ==
    IF a = 0 THEN b
    ELSE IF b = 0 THEN a
    ELSE (((a % 2) + (b % 2)) % 2) + 2 * BitXor(a \div 2, b \div 2)

RECURSIVE BitOr(_, _)
BitOr(a, b) ==
    IF a = 0 THEN b
    ELSE IF b = 0 THEN a
    ELSE (IF (a % 2) + (b % 2) > 0 THEN 1 ELSE 0) + 2 * BitOr(a \div 2, b \div 2)

Pow2(n) == <<1, 2, 4, 8, 16, 32, 64, 128, 256, 512, 1024, 2048, 4096, 8192,
             16384, 32768, 65536>>[n + 1]

Shl(a, n) == a * Pow2(n)
Shr(a, n) == a \div Pow2(n)
U8(a) == a % 256
U16(a) == a % 65536

(***************************************************************************)
(* CRC codec.                                                              *)
(***************************************************************************)
\* variant: the last entry of the table is mistyped
crc8_lut_typo == <<
    0, 213, 127, 170, 254, 43, 129, 84, 41, 252, 86, 131, 215, 2, 168, 125,
    82, 135, 45, 248, 172, 121, 211, 6, 123, 174, 4, 209, 133, 80, 250, 47,
    164, 113, 219, 14, 90, 143, 37, 240, 141, 88, 242, 39, 115, 166, 12, 217,
    246, 35, 137, 92, 8, 221, 119, 162, 223, 10, 160, 117, 33, 244, 94, 139,
    157, 72, 226, 55, 99, 182, 28, 201, 180, 97, 203, 30, 74, 159, 53, 224,
    207, 26, 176, 101, 49, 228, 78, 155, 230, 51, 153, 76, 24, 205, 103, 178,
    57, 236, 70, 147, 199, 18, 184, 109, 16, 197, 111, 186, 238, 59, 145, 68,
    107, 190, 20, 193, 149, 64, 234, 63, 66, 151, 61, 232, 188, 105, 195, 22,
    239, 58, 144, 69, 17, 196, 110, 187, 198, 19, 185, 108, 56, 237, 71, 146,
    189, 104, 194, 23, 67, 150, 60, 233, 148, 65, 235, 62, 106, 191, 21, 192,
    75, 158, 52, 225, 181, 96, 202, 31, 98, 183, 29, 200, 156, 73, 227, 54,
    25, 204, 102, 179, 231, 50, 152, 77, 48, 229, 79, 154, 206, 27, 177, 100,
    114, 167, 13, 216, 140, 89, 243, 38, 91, 142, 36, 241, 165, 112, 218, 15,
    32, 245, 95, 138, 222, 11, 161, 116, 9, 220, 118, 163, 247, 34, 136, 93,
    214, 3, 169, 124, 40, 253, 87, 130, 255, 42, 128, 85, 1, 212, 126, 171,
    132, 81, 251, 46, 122, 175, 5, 208, 173, 120, 210, 7, 83, 134, 44, 248 >>

crc8_lut == <<
    0, 213, 127, 170, 254, 43, 129, 84, 41, 252, 86, 131, 215, 2, 168, 125,
    82, 135, 45, 248, 172, 121, 211, 6, 123, 174, 4, 209, 133, 80, 250, 47,
    164, 113, 219, 14, 90, 143, 37, 240, 141, 88, 242, 39, 115, 166, 12, 217,
    246, 35, 137, 92, 8, 221, 119, 162, 223, 10, 160, 117, 33, 244, 94, 139,
    157, 72, 226, 55, 99, 182, 28, 201, 180, 97, 203, 30, 74, 159, 53, 224,
    207, 26, 176, 101, 49, 228, 78, 155, 230, 51, 153, 76, 24, 205, 103, 178,
    57, 236, 70, 147, 199, 18, 184, 109, 16, 197, 111, 186, 238, 59, 145, 68,
    107, 190, 20, 193, 149, 64, 234, 63, 66, 151, 61, 232, 188, 105, 195, 22,
    239, 58, 144, 69, 17, 196, 110, 187, 198, 19, 185, 108, 56, 237, 71, 146,
    189, 104, 194, 23, 67, 150, 60, 233, 148, 65, 235, 62, 106, 191, 21, 192,
    75, 158, 52, 225, 181, 96, 202, 31, 98, 183, 29, 200, 156, 73, 227, 54,
    25, 204, 102, 179, 231, 50, 152, 77, 48, 229, 79, 154, 206, 27, 177, 100,
    114, 167, 13, 216, 140, 89, 243, 38, 91, 142, 36, 241, 165, 112, 218, 15,
    32, 245, 95, 138, 222, 11, 161, 116, 9, 220, 118, 163, 247, 34, 136, 93,
    214, 3, 169, 124, 40, 253, 87, 130, 255, 42, 128, 85, 1, 212, 126, 171,
    132, 81, 251, 46, 122, 175, 5, 208, 173, 120, 210, 7, 83, 134, 44, 249 >>

\* crsf_crc8: table driven, seed 0, over the sequence data
RECURSIVE crsf_crc8_from(_, _)
crsf_crc8_from(crc, data) ==
    IF data = << >> \/ crc < 0 THEN crc
    ELSE crsf_crc8_from(crc8_lut[BitXor(crc, Head(data)) + 1], Tail(data))

crsf_crc8(data) == crsf_crc8_from(0, data)

\* CrsfCrc::calc: bit by bit with polynomial 0xD5
RECURSIVE CrcShift(_, _)
CrcShift(crc, j) ==
    IF j = 0 \/ crc < 0 THEN crc
    ELSE CrcShift(IF crc >= 128 THEN BitXor(U8(Shl(crc, 1)), CRSF_CRC_POLY)
                                ELSE U8(Shl(crc, 1)), j - 1)

RECURSIVE CrsfCrc_calc(_, _)
CrsfCrc_calc(data, crc) ==
    IF data = << >> \/ crc < 0 THEN crc
    ELSE CrsfCrc_calc(Tail(data), CrcShift(BitXor(crc, Head(data)), 8))

\* UsbHostParser::crc8_d5: bit by bit with polynomial 0xD5, seed 0
RECURSIVE crc8_d5_bits(_, _)
crc8_d5_bits(crc, j) ==
    IF j = 0 \/ crc < 0 THEN crc
    ELSE crc8_d5_bits(IF crc >= 128 THEN U8(BitXor(Shl(crc, 1), 213))
                                    ELSE U8(Shl(crc, 1)), j - 1)

RECURSIVE crc8_d5_from(_, _)
crc8_d5_from(crc, data) ==
    IF data = << >> \/ crc < 0 THEN crc
    ELSE crc8_d5_from(crc8_d5_bits(BitXor(crc, Head(data)), 8), Tail(data))

crc8_d5(data) == crc8_d5_from(0, data)

(***************************************************************************)
(* Channel codec: 16 channels of 11 bits in 22 bytes.                      *)
(***************************************************************************)
\* variant: byte 4 leaves out the top bit of the third channel
crsf_pack_channels_lostBit(ch) ==
    << U8(ch[1]),
       U8(BitOr(Shr(ch[1], 8), Shl(ch[2], 3))),
       U8(BitOr(Shr(ch[2], 5), Shl(ch[3], 6))),
       U8(Shr(ch[3], 2)),
       U8(Shl(ch[4], 1)),
       U8(BitOr(Shr(ch[4], 7), Shl(ch[5], 4))),
       U8(BitOr(Shr(ch[5], 4), Shl(ch[6], 7))),
       U8(Shr(ch[6], 1)),
       U8(BitOr(Shr(ch[6], 9), Shl(ch[7], 2))),
       U8(BitOr(Shr(ch[7], 6), Shl(ch[8], 5))),
       U8(Shr(ch[8], 3)),
       U8(ch[9]),
       U8(BitOr(Shr(ch[9], 8), Shl(ch[10], 3))),
       U8(BitOr(Shr(ch[10], 5), Shl(ch[11], 6))),
       U8(Shr(ch[11], 2)),
       U8(BitOr(Shr(ch[11], 10), Shl(ch[12], 1))),
       U8(BitOr(Shr(ch[12], 7), Shl(ch[13], 4))),
       U8(BitOr(Shr(ch[13], 4), Shl(ch[14], 7))),
       U8(Shr(ch[14], 1)),
       U8(BitOr(Shr(ch[14], 9), Shl(ch[15], 2))),
       U8(BitOr(Shr(ch[15], 6), Shl(ch[16], 5))),
       U8(Shr(ch[16], 3)) >>

crsf_pack_channels(ch) ==
    << U8(ch[1]),
       U8(BitOr(Shr(ch[1], 8), Shl(ch[2], 3))),
       U8(BitOr(Shr(ch[2], 5), Shl(ch[3], 6))),
       U8(Shr(ch[3], 2)),
       U8(BitOr(Shr(ch[3], 10), Shl(ch[4], 1))),
       U8(BitOr(Shr(ch[4], 7), Shl(ch[5], 4))),
       U8(BitOr(Shr(ch[5], 4), Shl(ch[6], 7))),
       U8(Shr(ch[6], 1)),
       U8(BitOr(Shr(ch[6], 9), Shl(ch[7], 2))),
       U8(BitOr(Shr(ch[7], 6), Shl(ch[8], 5))),
       U8(Shr(ch[8], 3)),
       U8(ch[9]),
       U8(BitOr(Shr(ch[9], 8), Shl(ch[10], 3))),
       U8(BitOr(Shr(ch[10], 5), Shl(ch[11], 6))),
       U8(Shr(ch[11], 2)),
       U8(BitOr(Shr(ch[11], 10), Shl(ch[12], 1))),
       U8(BitOr(Shr(ch[12], 7), Shl(ch[13], 4))),
       U8(BitOr(Shr(ch[13], 4), Shl(ch[14], 7))),
       U8(Shr(ch[14], 1)),
       U8(BitOr(Shr(ch[14], 9), Shl(ch[15], 2))),
       U8(BitOr(Shr(ch[15], 6), Shl(ch[16], 5))),
       U8(Shr(ch[16], 3)) >>

\* variant: the third channel is read without its top bit (packed[4] << 10)
crsf_unpack_channels_lostBit(p) ==
    << (BitOr(p[1], Shl(p[2], 8))) % 2048,
       (BitOr(Shr(p[2], 3), Shl(p[3], 5))) % 2048,
       (BitOr(Shr(p[3], 6), Shl(p[4], 2))) % 2048,
       (BitOr(Shr(p[5], 1), Shl(p[6], 7))) % 2048,
       (BitOr(Shr(p[6], 4), Shl(p[7], 4))) % 2048,
       (BitOr(BitOr(Shr(p[7], 7), Shl(p[8], 1)), Shl(p[9], 9))) % 2048,
       (BitOr(Shr(p[9], 2), Shl(p[10], 6))) % 2048,
       (BitOr(Shr(p[10], 5), Shl(p[11], 3))) % 2048,
       (BitOr(p[12], Shl(p[13], 8))) % 2048,
       (BitOr(Shr(p[13], 3), Shl(p[14], 5))) % 2048,
       (BitOr(BitOr(Shr(p[14], 6), Shl(p[15], 2)), Shl(p[16], 10))) % 2048,
       (BitOr(Shr(p[16], 1), Shl(p[17], 7))) % 2048,
       (BitOr(Shr(p[17], 4), Shl(p[18], 4))) % 2048,
       (BitOr(BitOr(Shr(p[18], 7), Shl(p[19], 1)), Shl(p[20], 9))) % 2048,
       (BitOr(Shr(p[20], 2), Shl(p[21], 6))) % 2048,
       (BitOr(Shr(p[21], 5), Shl(p[22], 3))) % 2048 >>

crsf_unpack_channels(p) ==
    << (BitOr(p[1], Shl(p[2], 8))) % 2048,
       (BitOr(Shr(p[2], 3), Shl(p[3], 5))) % 2048,
       (BitOr(BitOr(Shr(p[3], 6), Shl(p[4], 2)), Shl(p[5], 10))) % 2048,
       (BitOr(Shr(p[5], 1), Shl(p[6], 7))) % 2048,
       (BitOr(Shr(p[6], 4), Shl(p[7], 4))) % 2048,
       (BitOr(BitOr(Shr(p[7], 7), Shl(p[8], 1)), Shl(p[9], 9))) % 2048,
       (BitOr(Shr(p[9], 2), Shl(p[10], 6))) % 2048,
       (BitOr(Shr(p[10], 5), Shl(p[11], 3))) % 2048,
       (BitOr(p[12], Shl(p[13], 8))) % 2048,
       (BitOr(Shr(p[13], 3), Shl(p[14], 5))) % 2048,
       (BitOr(BitOr(Shr(p[14], 6), Shl(p[15], 2)), Shl(p[16], 10))) % 2048,
       (BitOr(Shr(p[16], 1), Shl(p[17], 7))) % 2048,
       (BitOr(Shr(p[17], 4), Shl(p[18], 4))) % 2048,
       (BitOr(BitOr(Shr(p[18], 7), Shl(p[19], 1)), Shl(p[20], 9))) % 2048,
       (BitOr(Shr(p[20], 2), Shl(p[21], 6))) % 2048,
       (BitOr(Shr(p[21], 5), Shl(p[22], 3))) % 2048 >>

\* variant: the CRC is computed over the payload only, leaving out the type
crsf_build_rc_frame_crcPayloadOnly(ch) ==
    LET body == <<CRSF_FRAMETYPE_RC_CHANNELS>> \o crsf_pack_channels(ch)
    IN  <<CRSF_ADDRESS_MODULE, CRSF_RC_CHANNELS_PACKED_LEN + 2>> \o body
            \o <<crsf_crc8(SubSeq(body, 2, CRSF_RC_CHANNELS_PACKED_LEN + 1))>>

\* crsf_build_rc_frame: [0xEE][24][0x16][22 packed bytes][crc over type+payload]
crsf_build_rc_frame(ch) ==
    LET body == <<CRSF_FRAMETYPE_RC_CHANNELS>> \o crsf_pack_channels(ch)
    IN  <<CRSF_ADDRESS_MODULE, CRSF_RC_CHANNELS_PACKED_LEN + 2>> \o body
            \o <<crsf_crc8(SubSeq(body, 1, CRSF_RC_CHANNELS_PACKED_LEN + 1))>>

(***************************************************************************)
(* State.                                                                  *)
(***************************************************************************)
VARIABLES
    now,          \* micros(): free running 32 bit microsecond counter
    cdcParser,    \* CDCParser: host link frame assembler and liveness state
    parser,       \* CRSFParser: module link frame assembler
    moduleSync,   \* ModuleSync: timing state
    rcChannels,   \* RCChannels::channels, 16 wire values
    crsfTask,     \* CRSFTask: deadline, counters, single slot output queue
    crsfUart,     \* CRSFUart: half duplex transport
    serialRx,     \* bytes waiting on the USB serial port (host to bridge)
    serialTx,     \* Serial output: forwardModuleToCDC writes, diagnostics
    usbParser,    \* UsbHostParser: state machine of the binary host protocol
    crsf,         \* CrsfPacketHandler: the channel values it is handed
    usb_host_last_activity_ms  \* millis() of the last byte read by update()

vars == <<now, cdcParser, parser, moduleSync, rcChannels, crsfTask, crsfUart,
          serialRx, serialTx, usbParser, crsf, usb_host_last_activity_ms>>

Zeros(n) == [i \in 1..n |-> 0]

\* memcpy(dst, src, n) on a fixed size array
Memcpy(dst, src, n) == [i \in 1..Len(dst) |-> IF i <= n THEN src[i] ELSE dst[i]]

(***************************************************************************)
(* CRSFTask::queueOutputFrame.  The result is the returned flag together   *)
(* with the task state after the call.                                     *)
(***************************************************************************)
\* variant: the pending flag is not consulted, a queued frame is overwritten
queueOutputFrame_overwrite(task, data) ==
    IF Len(data) > CRSF_MAX_FRAME_SIZE
    THEN [ok |-> FALSE, task |-> task]
    ELSE [ok |-> TRUE,
          task |-> [task EXCEPT
                      !.outputFrameBuffer = Memcpy(@, data, Len(data)),
                      !.outputFrameLength = Len(data),
                      !.outputFramePending = TRUE]]

queueOutputFrame(task, data) ==
    IF task.outputFramePending \/ Len(data) > CRSF_MAX_FRAME_SIZE
    THEN [ok |-> FALSE, task |-> task]
    ELSE [ok |-> TRUE,
          task |-> [task EXCEPT
                      !.outputFrameBuffer = Memcpy(@, data, Len(data)),
                      !.outputFrameLength = Len(data),
                      !.outputFramePending = TRUE]]

\* main.cpp forwardCDCToModule, installed by setup() as the CDC forward callback
forwardCDCToModule(task, frame) == queueOutputFrame(task, frame)

(***************************************************************************)
(* CDCParser (host link).  The host side state touched by a byte is the    *)
(* record h = [cdc, ch, task, out]: the parser, the channel set it writes, *)
(* the task whose queue the forward callback fills and the host serial     *)
(* port, to which the default branch prints a diagnostic line.             *)
(***************************************************************************)
CDC_isValidSyncByte(byte) ==
    \/ byte = CRSF_SYNC_BYTE
    \/ byte = CRSF_ADDRESS_RADIO
    \/ byte = CRSF_ADDRESS_RECEIVER
    \/ byte = CRSF_ADDRESS_MODULE

\* variant: the upper limit forgets the two header bytes
CDC_isValidLength_wide(byte) == byte >= 2 /\ byte <= CRSF_MAX_FRAME_SIZE

\* the length test of CDCParser::processByte in WAIT_LENGTH
CDC_isValidLength(byte) == byte >= 2 /\ byte <= CRSF_MAX_FRAME_SIZE - 2

isFailsafe(cdc, t) ==
    IF cdc.lastRCFrameTime = 0 THEN TRUE
    ELSE Sub32(t, cdc.lastRCFrameTime) > FAILSAFE_TIMEOUT_US

\* variant: the CRC is not compared
CDC_CrcMatches_any(frame, length) == TRUE

\* the CRC test of CDCParser::processFrame: crsf_crc8(&frame[2], frameLen - 1)
\* against frame[length - 1]
CDC_CrcMatches(frame, length) ==
    crsf_crc8(SubSeq(frame, 3, 3 + (frame[2] - 1) - 1)) = frame[length]

CDCForwardTypes ==
    {CRSF_FRAMETYPE_PING_DEVICES, CRSF_FRAMETYPE_PARAMETER_READ,
     CRSF_FRAMETYPE_PARAMETER_WRITE, CRSF_FRAMETYPE_COMMAND}

\* variant: a channel frame overwrites the first eight channels only
CDCDispatch_merge(h, frame, length, t) ==
    LET type == frame[3]
        payloadLen == frame[2] - 2
        new == crsf_unpack_channels(SubSeq(frame, 4, 25))
    IN  IF type = CRSF_FRAMETYPE_RC_CHANNELS
        THEN IF payloadLen = CRSF_RC_CHANNELS_PACKED_LEN
             THEN [h EXCEPT
                     !.ch = [i \in 1..NUM_CHANNELS |->
                               IF i <= 8 THEN new[i] ELSE h.ch[i]],
                     !.cdc.rcFramesReceived = @ + 1,
                     !.cdc.lastRCFrameTime = t]
             ELSE h
        ELSE IF type \in CDCForwardTypes
        THEN LET r == forwardCDCToModule(h.task, SubSeq(frame, 1, length))
             IN  [h EXCEPT !.task = r.task,
                           !.cdc.forwardedFrames = IF r.ok THEN @ + 1 ELSE @]
        ELSE [h EXCEPT !.out.printfCount = @ + 1]

\* variant: every frame that passes the CRC check refreshes lastRCFrameTime
CDCDispatch_anyTouch(h, frame, length, t) ==
    LET type == frame[3]
        payloadLen == frame[2] - 2
        h0 == [h EXCEPT !.cdc.lastRCFrameTime = t]
    IN  IF type = CRSF_FRAMETYPE_RC_CHANNELS
        THEN IF payloadLen = CRSF_RC_CHANNELS_PACKED_LEN
             THEN [h0 EXCEPT
                     !.ch = crsf_unpack_channels(SubSeq(frame, 4, 25)),
                     !.cdc.rcFramesReceived = @ + 1]
             ELSE h0
        ELSE IF type \in CDCForwardTypes
        THEN LET r == forwardCDCToModule(h0.task, SubSeq(frame, 1, length))
             IN  [h0 EXCEPT !.task = r.task,
                            !.cdc.forwardedFrames = IF r.ok THEN @ + 1 ELSE @]
        ELSE [h0 EXCEPT !.out.printfCount = @ + 1]

\* variant: forwardedFrames counts every call of the forward callback
CDCDispatch_countAll(h, frame, length, t) ==
    LET type == frame[3]
        payloadLen == frame[2] - 2
    IN  IF type = CRSF_FRAMETYPE_RC_CHANNELS
        THEN IF payloadLen = CRSF_RC_CHANNELS_PACKED_LEN
             THEN [h EXCEPT
                     !.ch = crsf_unpack_channels(SubSeq(frame, 4, 25)),
                     !.cdc.rcFramesReceived = @ + 1,
                     !.cdc.lastRCFrameTime = t]
             ELSE h
        ELSE IF type \in CDCForwardTypes
        THEN LET r == forwardCDCToModule(h.task, SubSeq(frame, 1, length))
             IN  [h EXCEPT !.task = r.task, !.cdc.forwardedFrames = @ + 1]
        ELSE [h EXCEPT !.out.printfCount = @ + 1]

\* the type switch of CDCParser::processFrame, after framesReceived++
\* variant: a frame of the channel type is unpacked whatever its payload
\* length
CDCDispatch_noLengthTest(h, frame, length, t) ==
    LET type == frame[3]
    IN  IF type = CRSF_FRAMETYPE_RC_CHANNELS
        THEN [h EXCEPT
                !.ch = crsf_unpack_channels(SubSeq(frame, 4, 25)),
                !.cdc.rcFramesReceived = @ + 1,
                !.cdc.lastRCFrameTime = t]
        ELSE IF type \in CDCForwardTypes
        THEN LET r == forwardCDCToModule(h.task, SubSeq(frame, 1, length))
             IN  [h EXCEPT !.task = r.task,
                           !.cdc.forwardedFrames = IF r.ok THEN @ + 1 ELSE @]
        ELSE [h EXCEPT !.out.printfCount = @ + 1]

CDCDispatch(h, frame, length, t) ==
    LET type == frame[3]
        frameLen == frame[2]
        payloadLen == frameLen - 2
    IN  IF type = CRSF_FRAMETYPE_RC_CHANNELS
        THEN IF payloadLen = CRSF_RC_CHANNELS_PACKED_LEN
             THEN [h EXCEPT
                     !.ch = crsf_unpack_channels(SubSeq(frame, 4, 25)),
                     !.cdc.rcFramesReceived = @ + 1,
                     !.cdc.lastRCFrameTime = t]
             ELSE h
        ELSE IF type \in CDCForwardTypes
        THEN LET r == forwardCDCToModule(h.task, SubSeq(frame, 1, length))
             IN  [h EXCEPT !.task = r.task,
                           !.cdc.forwardedFrames = IF r.ok THEN @ + 1 ELSE @]
        ELSE [h EXCEPT !.out.printfCount = @ + 1]

\* variant: a frame that fails the CRC check is counted as received as well
CDCprocessFrame_countBad(h, frame, length, t) ==
    IF length < 4 THEN h
    ELSE IF frame[2] + 2 # length THEN h
    ELSE IF ~CDC_CrcMatches(frame, length)
    THEN [h EXCEPT !.cdc.crcErrors = @ + 1, !.cdc.framesReceived = @ + 1]
    ELSE CDCDispatch([h EXCEPT !.cdc.framesReceived = @ + 1], frame, length, t)

CDCprocessFrame(h, frame, length, t) ==
    IF length < 4 THEN h
    ELSE IF frame[2] + 2 # length THEN h
    ELSE IF ~CDC_CrcMatches(frame, length)
    THEN [h EXCEPT !.cdc.crcErrors = @ + 1]
    ELSE CDCDispatch([h EXCEPT !.cdc.framesReceived = @ + 1], frame, length, t)

CDCprocessByte(h, byte, t) ==
    LET p == h.cdc IN
    CASE p.state = "WAIT_SYNC" ->
           IF CDC_isValidSyncByte(byte)
           THEN [h EXCEPT !.cdc.rxBuffer[1] = byte,
                          !.cdc.rxBufferIndex = 1,
                          !.cdc.state = "WAIT_LENGTH"]
           ELSE h
      [] p.state = "WAIT_LENGTH" ->
           IF CDC_isValidLength(byte)
           THEN [h EXCEPT !.cdc.rxBuffer[2] = byte,
                          !.cdc.rxBufferIndex = 2,
                          !.cdc.rxFrameLength = byte + 2,
                          !.cdc.state = "RECEIVE_DATA"]
           ELSE [h EXCEPT !.cdc.state = "WAIT_SYNC"]
      [] p.state = "RECEIVE_DATA" ->
           LET h1 == [h EXCEPT !.cdc.rxBuffer[p.rxBufferIndex + 1] = byte,
                               !.cdc.rxBufferIndex = p.rxBufferIndex + 1]
           IN  IF h1.cdc.rxBufferIndex >= h1.cdc.rxFrameLength
               THEN [CDCprocessFrame(h1, h1.cdc.rxBuffer, h1.cdc.rxFrameLength, t)
                       EXCEPT !.cdc.state = "WAIT_SYNC"]
               ELSE h1

\* handleSerialCommands: while (Serial.available()) cdcParser.processByte(Serial.read())
RECURSIVE CDCFeed(_, _, _)
CDCFeed(h, bytes, t) ==
    IF bytes = << >> \/ h.cdc.rxBufferIndex < 0 THEN h
    ELSE CDCFeed(CDCprocessByte(h, Head(bytes), t), Tail(bytes), t)

(***************************************************************************)
(* ModuleSync (timing synchronizer).                                       *)
(***************************************************************************)
\* millis() as the mock clock derives it from the microsecond counter
Millis(t) == t \div 1000

\* variant: the new offset is added to the offset not yet consumed
updateTiming_accumulate(sync, refreshRateUs, inputLagUs, t) ==
    [refreshRate |-> refreshRateUs,
     inputLag    |-> sync.inputLag + inputLagUs,
     lastUpdate  |-> Millis(t),
     valid       |-> TRUE]

updateTiming(sync, refreshRateUs, inputLagUs, t) ==
    [refreshRate |-> refreshRateUs,
     inputLag    |-> inputLagUs,
     lastUpdate  |-> Millis(t),
     valid       |-> TRUE]

\* variant: the applied part of the offset is not consumed
getAdjustedPeriod_noConsume(sync) ==
    IF ~sync.valid
    THEN [period |-> CRSF_DEFAULT_PERIOD_US, sync |-> sync]
    ELSE LET sum == sync.refreshRate + sync.inputLag
             adjustedPeriod ==
                 IF sum < CRSF_MIN_PERIOD_US THEN CRSF_MIN_PERIOD_US
                 ELSE IF sum > CRSF_MAX_PERIOD_US THEN CRSF_MAX_PERIOD_US
                 ELSE sum
         IN  [period |-> adjustedPeriod, sync |-> sync]

\* getAdjustedPeriod: the returned period and the state after the call
getAdjustedPeriod(sync) ==
    IF ~sync.valid
    THEN [period |-> CRSF_DEFAULT_PERIOD_US, sync |-> sync]
    ELSE LET sum == sync.refreshRate + sync.inputLag
             adjustedPeriod ==
                 IF sum < CRSF_MIN_PERIOD_US THEN CRSF_MIN_PERIOD_US
                 ELSE IF sum > CRSF_MAX_PERIOD_US THEN CRSF_MAX_PERIOD_US
                 ELSE sum
         IN  [period |-> adjustedPeriod,
              sync   |-> [sync EXCEPT
                            !.inputLag = @ - (adjustedPeriod - sync.refreshRate)]]

(***************************************************************************)
(* CRSFParser (module link).  The module side state touched by a byte is   *)
(* the record m = [parser, sync, out]: the assembler, the timing state the *)
(* timing callback writes and the host serial port the forwarder writes.   *)
(***************************************************************************)
\* int32_t assembled from four big endian bytes: the shifted bytes occupy
\* disjoint bits, and the top byte carries the two's complement sign
BE32(b3, b2, b1, b0) ==
    (IF b3 >= 128 THEN b3 - 256 ELSE b3) * 16777216
        + BitOr(BitOr(Shl(b2, 16), Shl(b1, 8)), b0)

\* variant: the quotient is rounded down instead of toward zero
FloorDiv(a, b) == a \div b

\* C++ integer division truncates toward zero
TruncDiv(a, b) == IF a >= 0 THEN a \div b ELSE -((-a) \div b)

\* main.cpp forwardModuleToCDC: Serial.write(frame, length).  The host port is
\* taken to be open (Serial converts to true), as it is once a host has
\* written the bytes the model feeds.
forwardModuleToCDC(out, frame) ==
    [out EXCEPT !.writeCallCount = @ + 1, !.last = frame]

parseRadioIdFrame(m, payload, len, t) ==
    IF len < 11 THEN m
    ELSE IF payload[3] # CRSF_SUBCMD_TIMING THEN m
    ELSE LET interval == BE32(payload[4], payload[5], payload[6], payload[7])
             offset   == BE32(payload[8], payload[9], payload[10], payload[11])
             refreshRateUs == TruncDiv(interval, 10)
             inputLagUs    == TruncDiv(offset, 10)
         IN  [m EXCEPT !.sync = updateTiming(@, refreshRateUs, inputLagUs, t)]

\* variant: the broadcast address 0x00 is taken as a frame start as well
CRSF_isValidSyncByte_broadcast(byte) ==
    \/ byte = 0
    \/ byte = CRSF_SYNC_BYTE
    \/ byte = CRSF_ADDRESS_RADIO
    \/ byte = CRSF_ADDRESS_RECEIVER
    \/ byte = CRSF_ADDRESS_MODULE

CRSF_isValidSyncByte(byte) ==
    \/ byte = CRSF_SYNC_BYTE
    \/ byte = CRSF_ADDRESS_RADIO
    \/ byte = CRSF_ADDRESS_RECEIVER
    \/ byte = CRSF_ADDRESS_MODULE

\* the length test of CRSFParser::processByte in WAIT_LENGTH
CRSF_isValidLength(byte) == byte >= 2 /\ byte <= CRSF_MAX_FRAME_SIZE - 2

\* the CRC test of CRSFParser::processFrame
CRSF_CrcMatches(frame, length) ==
    crsf_crc8(SubSeq(frame, 3, 3 + (frame[2] - 1) - 1)) = frame[length]

\* variant: timing frames are forwarded to the host like any other frame
CRSFprocessFrame_forwardAll(m, frame, length, t) ==
    IF length < 4 THEN m
    ELSE IF frame[2] + 2 # length THEN m
    ELSE IF ~CRSF_CrcMatches(frame, length)
    THEN [m EXCEPT !.parser.crcErrors = @ + 1]
    ELSE LET m1 == [m EXCEPT !.parser.framesReceived = @ + 1]
             payloadLen == frame[2] - 2
             payload == SubSeq(frame, 4, 3 + payloadLen)
             m2 == IF frame[3] = CRSF_FRAMETYPE_RADIO_ID
                   THEN parseRadioIdFrame(m1, payload, payloadLen, t)
                   ELSE m1
         IN  [m2 EXCEPT
                !.out = forwardModuleToCDC(@, SubSeq(frame, 1, length))]

CRSFprocessFrame(m, frame, length, t) ==
    IF length < 4 THEN m
    ELSE IF frame[2] + 2 # length THEN m
    ELSE IF ~CRSF_CrcMatches(frame, length)
    THEN [m EXCEPT !.parser.crcErrors = @ + 1]
    ELSE LET m1 == [m EXCEPT !.parser.framesReceived = @ + 1]
             payloadLen == frame[2] - 2
             payload == SubSeq(frame, 4, 3 + payloadLen)
         IN  IF frame[3] = CRSF_FRAMETYPE_RADIO_ID
             THEN parseRadioIdFrame(m1, payload, payloadLen, t)
             ELSE [m1 EXCEPT
                     !.out = forwardModuleToCDC(@, SubSeq(frame, 1, length))]

CRSFprocessByte(m, byte, t) ==
    LET p == m.parser IN
    CASE p.state = "WAIT_SYNC" ->
           IF CRSF_isValidSyncByte(byte)
           THEN [m EXCEPT !.parser.rxBuffer[1] = byte,
                          !.parser.rxBufferIndex = 1,
                          !.parser.state = "WAIT_LENGTH"]
           ELSE m
      [] p.state = "WAIT_LENGTH" ->
           IF CRSF_isValidLength(byte)
           THEN [m EXCEPT !.parser.rxBuffer[2] = byte,
                          !.parser.rxBufferIndex = 2,
                          !.parser.rxFrameLength = byte + 2,
                          !.parser.state = "RECEIVE_DATA"]
           ELSE [m EXCEPT !.parser.state = "WAIT_SYNC"]
      [] p.state = "RECEIVE_DATA" ->
           LET m1 == [m EXCEPT !.parser.rxBuffer[p.rxBufferIndex + 1] = byte,
                               !.parser.rxBufferIndex = p.rxBufferIndex + 1]
           IN  IF m1.parser.rxBufferIndex >= m1.parser.rxFrameLength
               THEN [CRSFprocessFrame(m1, m1.parser.rxBuffer,
                                      m1.parser.rxFrameLength, t)
                       EXCEPT !.parser.state = "WAIT_SYNC"]
               ELSE m1

\* run(): while (uart.available()) parser.processByte(uart.read())
RECURSIVE CRSFFeed(_, _, _)
CRSFFeed(m, bytes, t) ==
    IF bytes = << >> \/ m.parser.rxBufferIndex < 0 THEN m
    ELSE CRSFFeed(CRSFprocessByte(m, Head(bytes), t), Tail(bytes), t)

(***************************************************************************)
(* RCChannels: the conversion from microseconds to wire values.            *)
(***************************************************************************)
CRSF_CHANNEL_MIN == 172
CRSF_CHANNEL_MAX == 1811

\* Arduino map(): long arithmetic, the quotient truncated toward zero
map(x, in_min, in_max, out_min, out_max) ==
    TruncDiv((x - in_min) * (out_max - out_min), in_max - in_min) + out_min

\* Arduino constrain()
constrain(x, a, b) == IF x < a THEN a ELSE IF x > b THEN b ELSE x

\* variant: the mapped value is stored without being constrained
microsecondsToCRSF_noClamp(us) == U16(map(us, 1000, 2000, 191, 1792))

\* RCChannels::microsecondsToCRSF, the result cast to uint16_t
microsecondsToCRSF(us) ==
    U16(constrain(map(us, 1000, 2000, 191, 1792),
                  CRSF_CHANNEL_MIN, CRSF_CHANNEL_MAX))

\* RCChannels::setChannel on the channel array ch; channel counts from 1
setChannel(ch, channel, microseconds) ==
    IF channel < 1 \/ channel > NUM_CHANNELS THEN ch
    ELSE [ch EXCEPT ![channel] = microsecondsToCRSF(microseconds)]

(***************************************************************************)
(* CRSFUart (half duplex transport).  txIdle is the hardware transmitter   *)
(* status read by uart_ll_is_tx_idle; tx is the last buffer handed to      *)
(* serial->write; the two counters count calls, as the test transport does.*)
(***************************************************************************)
transmit(u, data) ==
    [u EXCEPT !.transmitting = TRUE,
              !.txIdle = (Len(data) = 0),
              !.tx = data,
              !.txCallCount = @ + 1]

isTXComplete(u) == IF ~u.transmitting THEN TRUE ELSE u.txIdle

\* switchToRX: leave transmit mode and flush the echo bytes
switchToRX(u) ==
    IF ~u.transmitting THEN u
    ELSE [u EXCEPT !.transmitting = FALSE,
                   !.rx = << >>,
                   !.switchToRXCallCount = @ + 1]

(***************************************************************************)
(* CRSFTask (scheduler).                                                   *)
(***************************************************************************)
\* variant: the deadline has to be passed, not just reached
isTimeToSendRC_strict(task, sync, t) ==
    LET elapsed == Sub32(t, task.lastRCFrameTime)
        g == getAdjustedPeriod(sync)
    IN  [due |-> elapsed > g.period, sync |-> g.sync]

\* isTimeToSendRC: the answer and the timing state after getAdjustedPeriod()
isTimeToSendRC(task, sync, t) ==
    LET elapsed == Sub32(t, task.lastRCFrameTime)
        g == getAdjustedPeriod(sync)
    IN  [due |-> elapsed >= g.period, sync |-> g.sync]

\* sendRCFrame: build a channel frame from the channel set and transmit it
sendRCFrame(w, ch) ==
    [task |-> [w.task EXCEPT !.rcFramesSent = @ + 1],
     uart |-> transmit(w.uart, crsf_build_rc_frame(ch))]

\* variant: the link is returned to receive without waiting for completion
RunSwitch_noWait(u) ==
    IF u.transmitting THEN switchToRX(u) ELSE u

\* run(), first step: a completed transmission returns the link to receive
RunSwitch(u) ==
    IF u.transmitting /\ isTXComplete(u) THEN switchToRX(u) ELSE u

\* the two transmit branches of run(); w = [task, uart]
SendQueued(w) ==
    [task |-> [w.task EXCEPT !.outputFramePending = FALSE],
     uart |-> transmit(w.uart, SubSeq(w.task.outputFrameBuffer, 1,
                                      w.task.outputFrameLength))]

\* variant: the failsafe state is not consulted
RunSend_noFailsafe(w, ch, failsafe, t) ==
    LET sent == IF w.task.outputFramePending THEN SendQueued(w)
                ELSE sendRCFrame(w, ch)
    IN  [sent EXCEPT !.task.lastRCFrameTime = t]

\* variant: the channel frame is sent even though a frame is queued
RunSend_rcFirst(w, ch, failsafe, t) ==
    IF failsafe
    THEN [w EXCEPT !.task.lastRCFrameTime = t]
    ELSE [sendRCFrame(w, ch) EXCEPT !.task.lastRCFrameTime = t]

\* variant: the pending flag is not cleared after the queued frame is sent
RunSend_noClear(w, ch, failsafe, t) ==
    IF failsafe
    THEN [w EXCEPT !.task.lastRCFrameTime = t]
    ELSE LET sent == IF w.task.outputFramePending
                     THEN [SendQueued(w) EXCEPT
                             !.task.outputFramePending = TRUE]
                     ELSE sendRCFrame(w, ch)
         IN  [sent EXCEPT !.task.lastRCFrameTime = t]

\* variant: the failsafe branch returns without advancing the deadline
RunSend_skipKeepsDeadline(w, ch, failsafe, t) ==
    IF failsafe
    THEN w
    ELSE LET sent == IF w.task.outputFramePending THEN SendQueued(w)
                     ELSE sendRCFrame(w, ch)
         IN  [sent EXCEPT !.task.lastRCFrameTime = t]

\* run(), last step, taken when the link is idle and the deadline has
\* elapsed; w = [task, uart]
RunSend(w, ch, failsafe, t) ==
    IF failsafe
    THEN [w EXCEPT !.task.lastRCFrameTime = t]
    ELSE LET sent == IF w.task.outputFramePending THEN SendQueued(w)
                     ELSE sendRCFrame(w, ch)
         IN  [sent EXCEPT !.task.lastRCFrameTime = t]

\* variant: the receiver is drained whether or not the link is transmitting
RunResult_readAlways(fresh) ==
    LET u1 == RunSwitch(crsfUart)
        m0 == [parser |-> parser, sync |-> moduleSync, out |-> serialTx]
        m1 == CRSFFeed(m0, (IF u1.transmitting THEN crsfUart.rx ELSE u1.rx)
                             \o fresh, now)
        u2 == [u1 EXCEPT !.rx = << >>]
        q  == isTimeToSendRC(crsfTask, m1.sync, now)
        w0 == [task |-> crsfTask, uart |-> u2]
        w1 == IF ~u2.transmitting /\ q.due
              THEN RunSend(w0, rcChannels, isFailsafe(cdcParser, now), now)
              ELSE w0
    IN  [parser |-> m1.parser,
         sync   |-> IF ~u2.transmitting THEN q.sync ELSE m1.sync,
         out    |-> m1.out,
         task   |-> w1.task,
         uart   |-> w1.uart]

\* run() as a function of the state and of the bytes the receiver has
\* collected since the previous poll
RunResult(fresh) ==
    LET u1 == RunSwitch(crsfUart)
        m0 == [parser |-> parser, sync |-> moduleSync, out |-> serialTx]
        m1 == IF ~u1.transmitting THEN CRSFFeed(m0, u1.rx \o fresh, now) ELSE m0
        u2 == IF ~u1.transmitting THEN [u1 EXCEPT !.rx = << >>] ELSE u1
        q  == isTimeToSendRC(crsfTask, m1.sync, now)
        w0 == [task |-> crsfTask, uart |-> u2]
        w1 == IF ~u2.transmitting /\ q.due
              THEN RunSend(w0, rcChannels, isFailsafe(cdcParser, now), now)
              ELSE w0
    IN  [parser |-> m1.parser,
         sync   |-> IF ~u2.transmitting THEN q.sync ELSE m1.sync,
         out    |-> m1.out,
         task   |-> w1.task,
         uart   |-> w1.uart]

(***************************************************************************)
(* UsbHostParser (binary host protocol) and the channel values of the      *)
(* CrsfPacketHandler it feeds.  Frame: [0x55][0xAA][len low][len high]     *)
(* [type][payload][crc8], len counting type and payload.                   *)
(***************************************************************************)
USB_SYNC0 == 85
USB_SYNC1 == 170
USB_HTYPE_CHANNELS == 1
\* sizeof(hbuf)
USB_HBUF_SIZE == 128
CRSF_CHANNEL_VALUE_MID == 992

\* UsbHostParser::UsbHostParser; firstPacket is the static flag of handleFrame
InitUsbParser ==
    [state |-> "USB_S0", hlen |-> 0, htype |-> 0,
     hbuf |-> Zeros(USB_HBUF_SIZE), hpos |-> 0, firstPacket |-> TRUE]

\* CrsfPacketHandler::CrsfPacketHandler: all channels at center
InitCrsf == [channels |-> [i \in 1..16 |-> CRSF_CHANNEL_VALUE_MID]]

\* CrsfPacketHandler::setChannelValue (channel counted from 0)
setChannelValue(c, channel, value) ==
    IF channel < 16 THEN [c EXCEPT !.channels[channel + 1] = value] ELSE c

\* the loop of handleFrame: channel i from payload[2i], payload[2i+1]
RECURSIVE SetChannelsFrom(_, _, _)
SetChannelsFrom(c, payload, i) ==
    IF i >= 16 THEN c
    ELSE LET raw == BitOr(payload[2 * i + 1], Shl(payload[2 * i + 2], 8))
             value == IF raw > 2047 THEN 2047 ELSE raw
         IN  SetChannelsFrom(setChannelValue(c, i, value), payload, i + 1)

\* UsbHostParser::handleFrame on w = [parser, crsf]; the diagnostic line of
\* the first packet goes to the debug output, which is not modelled
handleFrame(w, type, payload, plen) ==
    IF type = USB_HTYPE_CHANNELS /\ plen = 32
    THEN [parser |-> [w.parser EXCEPT !.firstPacket = FALSE],
          crsf   |-> SetChannelsFrom(w.crsf, payload, 0)]
    ELSE w

\* USB_S5_CRC: the bytes of tmp that are written before crc8_d5 is called,
\* the type and the copied part of hbuf
TmpWritten(u) ==
    <<u.htype>> \o
      (IF u.hlen > 1
       THEN SubSeq(u.hbuf, 1, IF u.hlen - 1 < USB_HBUF_SIZE THEN u.hlen - 1
                              ELSE USB_HBUF_SIZE)
       ELSE << >>)

\* USB_S5_CRC: the number of bytes crc8_d5(tmp, hlen) reads from tmp
CrcReadLen(u) == u.hlen

\* USB_S5_CRC: the values calcCrc can take.  tmp has 1 + sizeof(hbuf) bytes;
\* a read that stays inside the bytes written gives the CRC of these bytes,
\* a read beyond them (uninitialized or past the end of the array) can give
\* any value
CrcOutcomes(u) ==
    IF u.state # "USB_S5_CRC" THEN {0}
    ELSE IF CrcReadLen(u) <= Len(TmpWritten(u))
    THEN {crc8_d5(SubSeq(TmpWritten(u), 1, CrcReadLen(u)))}
    ELSE 0..255

\* UsbHostParser::processByte on w = [parser, crsf], with the value calcCrc
\* the CRC computation gives in USB_S5_CRC
USBprocessByte(w, b, calcCrc) ==
    LET u == w.parser IN
    CASE u.state = "USB_S0" ->
           [w EXCEPT !.parser.state = IF b = USB_SYNC0 THEN "USB_S1"
                                      ELSE "USB_S0"]
      [] u.state = "USB_S1" ->
           [w EXCEPT !.parser.state = IF b = USB_SYNC1 THEN "USB_S2_LEN0"
                                      ELSE "USB_S0"]
      [] u.state = "USB_S2_LEN0" ->
           [w EXCEPT !.parser.hlen = b, !.parser.state = "USB_S3_LEN1"]
      [] u.state = "USB_S3_LEN1" ->
           [w EXCEPT !.parser.hlen = U16(BitOr(u.hlen, Shl(b, 8))),
                     !.parser.hpos = 0,
                     !.parser.state = "USB_S4_BODY"]
      [] u.state = "USB_S4_BODY" ->
           LET w1 == IF u.hpos = 0
                     THEN [w EXCEPT !.parser.htype = b]
                     ELSE IF u.hpos - 1 < USB_HBUF_SIZE
                     THEN [w EXCEPT !.parser.hbuf[u.hpos] = b]
                     ELSE w
               hpos == U16(u.hpos + 1)
           IN  [w1 EXCEPT !.parser.hpos = hpos,
                          !.parser.state = IF hpos >= u.hlen THEN "USB_S5_CRC"
                                           ELSE "USB_S4_BODY"]
      [] u.state = "USB_S5_CRC" ->
           LET w1 == IF calcCrc = b
                     THEN handleFrame(w, u.htype, u.hbuf, U16(u.hlen - 1))
                     ELSE w
           IN  [w1 EXCEPT !.parser.state = "USB_S0"]

(***************************************************************************)
(* Inputs.                                                                 *)
(***************************************************************************)
\* a well formed frame: [address][length][type][payload][crc over type+payload]
MkFrame(addr, type, payload) ==
    <<addr, Len(payload) + 2, type>> \o payload
        \o <<CrsfCrc_calc(<<type>> \o payload, 0)>>

\* the frame with its last byte replaced
Corrupt(frame) == [frame EXCEPT ![Len(frame)] = (frame[Len(frame)] + 1) % 256]

CenterChannels == [i \in 1..NUM_CHANNELS |-> CRSF_CHANNEL_CENTER]
RampChannels   == [i \in 1..NUM_CHANNELS |-> (i - 1) * 136 + 7]

RCFrameCenter == MkFrame(CRSF_ADDRESS_MODULE, CRSF_FRAMETYPE_RC_CHANNELS,
                         crsf_pack_channels(CenterChannels))
RCFrameRamp   == MkFrame(CRSF_ADDRESS_MODULE, CRSF_FRAMETYPE_RC_CHANNELS,
                         crsf_pack_channels(RampChannels))
PingFrame     == MkFrame(CRSF_SYNC_BYTE, CRSF_FRAMETYPE_PING_DEVICES,
                         <<0, CRSF_ADDRESS_RADIO>>)
ParamReadFrame == MkFrame(CRSF_SYNC_BYTE, CRSF_FRAMETYPE_PARAMETER_READ,
                          <<CRSF_ADDRESS_MODULE, CRSF_ADDRESS_RADIO, 5, 0>>)
ParamWriteFrame == MkFrame(CRSF_SYNC_BYTE, CRSF_FRAMETYPE_PARAMETER_WRITE,
                           <<CRSF_ADDRESS_MODULE, CRSF_ADDRESS_RADIO, 5, 1>>)
CommandFrame  == MkFrame(CRSF_SYNC_BYTE, CRSF_FRAMETYPE_COMMAND,
                         <<CRSF_ADDRESS_MODULE, CRSF_ADDRESS_RADIO, 16, 1>>)
\* a channel frame whose payload is every bit set
RCFrameOnes   == MkFrame(CRSF_ADDRESS_MODULE, CRSF_FRAMETYPE_RC_CHANNELS,
                         [i \in 1..CRSF_RC_CHANNELS_PACKED_LEN |-> 255])
\* a channel frame whose payload bytes follow no channel pattern
RCFrameMixed  == MkFrame(CRSF_ADDRESS_MODULE, CRSF_FRAMETYPE_RC_CHANNELS,
                         [i \in 1..CRSF_RC_CHANNELS_PACKED_LEN |->
                            (37 * i + 11) % 256])

\* a frame of the channel type whose payload is not 22 bytes long
RCFrameTruncated == MkFrame(CRSF_ADDRESS_MODULE, CRSF_FRAMETYPE_RC_CHANNELS,
                            <<224, 3>>)
\* frames of the channel type with one payload byte less and one more than
\* a channel update
RCFrameShort21 == MkFrame(CRSF_ADDRESS_MODULE, CRSF_FRAMETYPE_RC_CHANNELS,
                          [i \in 1..21 |-> 255])
RCFrameLong23 == MkFrame(CRSF_ADDRESS_MODULE, CRSF_FRAMETYPE_RC_CHANNELS,
                         [i \in 1..23 |-> 255])

LinkStatsFrame == MkFrame(CRSF_ADDRESS_RADIO, 20,
                          <<120, 118, 100, 10, 0, 2, 1, 115, 98, 8>>)
\* timing correction: refresh 20000 (2000 us), offset 0, in tenths of a us
TimingFrame   == MkFrame(CRSF_ADDRESS_RADIO, CRSF_FRAMETYPE_RADIO_ID,
                         <<CRSF_ADDRESS_RADIO, CRSF_ADDRESS_MODULE,
                           CRSF_SUBCMD_TIMING, 0, 0, 78, 32, 0, 0, 0, 0>>)
\* timing corrections at the two ends of the accepted range: 1000 us, 50000 us
TimingFrameMin == MkFrame(CRSF_ADDRESS_RADIO, CRSF_FRAMETYPE_RADIO_ID,
                          <<CRSF_ADDRESS_RADIO, CRSF_ADDRESS_MODULE,
                            CRSF_SUBCMD_TIMING, 0, 0, 39, 16, 0, 0, 0, 0>>)
TimingFrameMax == MkFrame(CRSF_ADDRESS_RADIO, CRSF_FRAMETYPE_RADIO_ID,
                          <<CRSF_ADDRESS_RADIO, CRSF_ADDRESS_MODULE,
                            CRSF_SUBCMD_TIMING, 0, 7, 161, 32, 0, 0, 0, 0>>)
\* refresh 39995 (3999 us), offset -15 (-1 us): neither is a multiple of ten
TimingFrameNeg == MkFrame(CRSF_ADDRESS_RADIO, CRSF_FRAMETYPE_RADIO_ID,
                          <<CRSF_ADDRESS_RADIO, CRSF_ADDRESS_MODULE,
                            CRSF_SUBCMD_TIMING, 0, 0, 156, 59,
                            255, 255, 255, 241>>)
\* a frame of the timing type with another subcommand
TimingFrameOther == MkFrame(CRSF_ADDRESS_RADIO, CRSF_FRAMETYPE_RADIO_ID,
                            <<CRSF_ADDRESS_RADIO, CRSF_ADDRESS_MODULE,
                              17, 0, 0, 78, 32, 0, 0, 0, 0>>)
\* a timing frame one payload byte short
TimingFrameShort == MkFrame(CRSF_ADDRESS_RADIO, CRSF_FRAMETYPE_RADIO_ID,
                            <<CRSF_ADDRESS_RADIO, CRSF_ADDRESS_MODULE,
                              CRSF_SUBCMD_TIMING, 0, 0, 78, 32, 0, 0, 0>>)
\* a timing frame with one payload byte more: refresh 10000, offset 100
TimingFrameLong == MkFrame(CRSF_ADDRESS_RADIO, CRSF_FRAMETYPE_RADIO_ID,
                           <<CRSF_ADDRESS_RADIO, CRSF_ADDRESS_MODULE,
                             CRSF_SUBCMD_TIMING, 0, 0, 39, 16, 0, 0, 0, 100,
                             7>>)
\* timing correction with an offset to apply: refresh 20000 (2000 us),
\* offset 3000 (300 us)
TimingFrameLag == MkFrame(CRSF_ADDRESS_RADIO, CRSF_FRAMETYPE_RADIO_ID,
                          <<CRSF_ADDRESS_RADIO, CRSF_ADDRESS_MODULE,
                            CRSF_SUBCMD_TIMING, 0, 0, 78, 32, 0, 0, 11, 184>>)
\* the same refresh period with the offset -3000 (-300 us)
TimingFrameLead == MkFrame(CRSF_ADDRESS_RADIO, CRSF_FRAMETYPE_RADIO_ID,
                           <<CRSF_ADDRESS_RADIO, CRSF_ADDRESS_MODULE,
                             CRSF_SUBCMD_TIMING, 0, 0, 78, 32,
                             255, 255, 244, 72>>)

\* the longest frame: length byte 62, 64 bytes in all
LongFrame     == MkFrame(CRSF_ADDRESS_RECEIVER, 20, [i \in 1..60 |-> i])
\* the shortest frame: length byte 2, no payload
ShortFrame    == MkFrame(CRSF_SYNC_BYTE, 11, << >>)

\* what the host may have written to the serial port between two polls
HostChunks == {RCFrameCenter, PingFrame, ParamReadFrame}

\* what the module may have sent between two polls
ModuleChunks == {LinkStatsFrame, TimingFrame}

\* the instants of the 32 bit microsecond counter at which the model looks
TimePoints == {0, 1, 100001, 100002}

\* bounds on the statistics counters
MaxHostFrames == 3
MaxModuleFrames == 1
MaxTx == 2

(***************************************************************************)
(* Initial state: the globals of main.cpp after setup().                   *)
(***************************************************************************)
InitParser ==
    [state |-> "WAIT_SYNC", rxBuffer |-> Zeros(CRSF_MAX_FRAME_SIZE),
     rxBufferIndex |-> 0, rxFrameLength |-> 0,
     framesReceived |-> 0, crcErrors |-> 0]

InitCDCParser ==
    [state |-> "WAIT_SYNC", rxBuffer |-> Zeros(CRSF_MAX_FRAME_SIZE),
     rxBufferIndex |-> 0, rxFrameLength |-> 0,
     framesReceived |-> 0, crcErrors |-> 0,
     rcFramesReceived |-> 0, forwardedFrames |-> 0,
     lastRCFrameTime |-> 0]

InitCommon ==
    /\ now = 1
    /\ cdcParser = InitCDCParser
    /\ parser = InitParser
    /\ moduleSync = [refreshRate |-> 0, inputLag |-> 0, lastUpdate |-> 0,
                     valid |-> FALSE]
    /\ rcChannels = CenterChannels
    /\ crsfTask = [lastRCFrameTime |-> 0, rcFramesSent |-> 0,
                   outputFrameBuffer |-> Zeros(CRSF_MAX_FRAME_SIZE),
                   outputFrameLength |-> 0, outputFramePending |-> FALSE]
    /\ serialTx = [writeCallCount |-> 0, last |-> << >>, printfCount |-> 0]
    /\ usbParser = InitUsbParser
    /\ crsf = InitCrsf
    /\ usb_host_last_activity_ms = 0

InitUart ==
    [transmitting |-> FALSE, txIdle |-> TRUE, rx |-> << >>, tx |-> << >>,
     txCallCount |-> 0, switchToRXCallCount |-> 0]

Init ==
    /\ InitCommon
    /\ crsfUart = InitUart
    /\ serialRx = << >>

(***************************************************************************)
(* Actions.                                                                *)
(***************************************************************************)
\* time passes: the counter moves on (modulo 2^32) to another instant
Tick ==
    /\ \E t \in TimePoints \ {now} : now' = t
    /\ UNCHANGED <<cdcParser, parser, moduleSync, rcChannels, crsfTask,
                   crsfUart, serialRx, serialTx, usbParser, crsf,
                   usb_host_last_activity_ms>>

\* the hardware transmitter has shifted out the last bit
TxComplete ==
    /\ crsfUart.transmitting /\ ~crsfUart.txIdle
    /\ crsfUart' = [crsfUart EXCEPT !.txIdle = TRUE]
    /\ UNCHANGED <<now, cdcParser, parser, moduleSync, rcChannels, crsfTask,
                   serialRx, serialTx, usbParser, crsf,
                   usb_host_last_activity_ms>>

\* bytes reach the receiver around a transmission (echo, or a module frame
\* that arrived after the poll had drained the receiver)
ModuleSend ==
    /\ crsfUart.transmitting /\ crsfUart.rx = << >>
    /\ \E c \in ModuleChunks : crsfUart' = [crsfUart EXCEPT !.rx = c]
    /\ UNCHANGED <<now, cdcParser, parser, moduleSync, rcChannels, crsfTask,
                   serialRx, serialTx, usbParser, crsf,
                   usb_host_last_activity_ms>>

\* the bytes the receiver may have collected since the previous poll: none
\* while the link transmits (the receiver input is detached in transmit mode)
FreshBytes == ModuleChunks \cup {<< >>}

\* loop(): crsfTask.run(), with the bytes received since the previous poll
RunWith(fresh) ==
    /\ RunSwitch(crsfUart).transmitting => fresh = << >>
    /\ LET r == RunResult(fresh)
       IN  /\ parser' = r.parser
           /\ moduleSync' = r.sync
           /\ serialTx' = r.out
           /\ crsfTask' = r.task
           /\ crsfUart' = r.uart
    /\ UNCHANGED <<now, cdcParser, rcChannels, serialRx, usbParser, crsf,
                   usb_host_last_activity_ms>>

Run ==
    /\ crsfUart.txCallCount < MaxTx
    /\ parser.framesReceived < MaxModuleFrames
    /\ parser.crcErrors < MaxModuleFrames
    /\ \E fresh \in FreshBytes : RunWith(fresh)

\* variant: a command accepted from the host is written to the link at once
\* instead of waiting in the slot for the next poll
HandleSerialWith_direct(c) ==
    /\ LET h == CDCFeed([cdc |-> cdcParser, ch |-> rcChannels,
                         task |-> crsfTask, out |-> serialTx],
                        serialRx \o c, now)
           queued == h.task.outputFramePending /\ ~crsfTask.outputFramePending
       IN  /\ cdcParser' = h.cdc
           /\ rcChannels' = h.ch
           /\ serialTx' = h.out
           /\ crsfTask' = IF queued
                          THEN [h.task EXCEPT !.outputFramePending = FALSE]
                          ELSE h.task
           /\ crsfUart' = IF queued
                          THEN transmit(crsfUart,
                                        SubSeq(h.task.outputFrameBuffer, 1,
                                               h.task.outputFrameLength))
                          ELSE crsfUart
    /\ serialRx' = << >>
    /\ UNCHANGED <<now, parser, moduleSync, usbParser, crsf,
                   usb_host_last_activity_ms>>

\* handleSerialCommands() when the host has written the bytes c
HandleSerialWith(c) ==
    /\ LET h == CDCFeed([cdc |-> cdcParser, ch |-> rcChannels,
                         task |-> crsfTask, out |-> serialTx],
                        serialRx \o c, now)
       IN  /\ cdcParser' = h.cdc
           /\ rcChannels' = h.ch
           /\ crsfTask' = h.task
           /\ serialTx' = h.out
    /\ serialRx' = << >>
    /\ UNCHANGED <<now, parser, moduleSync, crsfUart, usbParser, crsf,
                   usb_host_last_activity_ms>>

\* loop(): handleSerialCommands(), with the bytes the host has written
HandleSerialCommands ==
    /\ cdcParser.framesReceived < MaxHostFrames
    /\ cdcParser.crcErrors < MaxHostFrames
    /\ \E c \in HostChunks : HandleSerialWith(c)

Next == Tick \/ TxComplete \/ ModuleSend \/ Run \/ HandleSerialCommands

Spec == Init /\ [][Next]_vars

(***************************************************************************)
(* The frame assemblers one byte at a time: each step is one iteration of  *)
(* the read loop of handleSerialCommands() or of run(), on an input stream *)
(* put together from well formed, corrupt and truncated pieces.            *)
(***************************************************************************)
Segments ==
    {PingFrame, Corrupt(PingFrame), RCFrameRamp, TimingFrame, LongFrame,
     ShortFrame,
     ParamReadFrame, ParamWriteFrame, CommandFrame, LinkStatsFrame,
     RCFrameOnes, RCFrameTruncated, Corrupt(RCFrameRamp),
     Corrupt(TimingFrame),
     TimingFrameNeg, TimingFrameOther, TimingFrameShort, TimingFrameLong,
     <<0, 85>>,                       \* bytes that start no frame
     <<CRSF_SYNC_BYTE, 63>>,          \* length above the accepted range
     <<CRSF_ADDRESS_RADIO, 1>>,       \* length below the accepted range
     <<CRSF_ADDRESS_MODULE, 4, 40>>}  \* a frame cut short

MaxSegments == 2

RECURSIVE Streams(_)
Streams(n) ==
    IF n = 0 THEN {<< >>}
    ELSE LET S == Streams(n - 1)
         IN  S \cup {s \o g : s \in S, g \in Segments}

InitBytes ==
    /\ InitCommon
    /\ \E s \in Streams(MaxSegments) :
         \/ serialRx = s /\ crsfUart = InitUart
         \/ serialRx = << >> /\ crsfUart = [InitUart EXCEPT !.rx = s]

\* one iteration of handleSerialCommands(): cdcParser.processByte(Serial.read())
HostByte ==
    /\ serialRx # << >>
    /\ LET h == CDCprocessByte([cdc |-> cdcParser, ch |-> rcChannels,
                                task |-> crsfTask, out |-> serialTx],
                               Head(serialRx), now)
       IN  /\ cdcParser' = h.cdc
           /\ rcChannels' = h.ch
           /\ crsfTask' = h.task
           /\ serialTx' = h.out
    /\ serialRx' = Tail(serialRx)
    /\ UNCHANGED <<now, parser, moduleSync, crsfUart, usbParser, crsf,
                   usb_host_last_activity_ms>>

\* one iteration of the read loop of run(): parser.processByte(uart.read())
ModuleByte ==
    /\ ~crsfUart.transmitting
    /\ crsfUart.rx # << >>
    /\ LET m == CRSFprocessByte([parser |-> parser, sync |-> moduleSync,
                                 out |-> serialTx], Head(crsfUart.rx), now)
       IN  /\ parser' = m.parser
           /\ moduleSync' = m.sync
           /\ serialTx' = m.out
    /\ crsfUart' = [crsfUart EXCEPT !.rx = Tail(@)]
    /\ UNCHANGED <<now, cdcParser, rcChannels, crsfTask, serialRx, usbParser,
                   crsf, usb_host_last_activity_ms>>

NextBytes == HostByte \/ ModuleByte

SpecBytes == InitBytes /\ [][NextBytes]_vars

(***************************************************************************)
(* The scheduler around its deadlines: time moves forward through the      *)
(* instants one microsecond before and at each period the module can ask   *)
(* for.                                                                    *)
(***************************************************************************)
TimingPoints == {1, 999, 1000, 1999, 2000, 3999, 4000, 49999, 50000}

TimingChunks == {TimingFrame, TimingFrameMin, TimingFrameMax}

TimingFresh == TimingChunks \cup {<< >>}

TickForward ==
    /\ \E t \in TimingPoints : t > now /\ now' = t
    /\ UNCHANGED <<cdcParser, parser, moduleSync, rcChannels, crsfTask,
                   crsfUart, serialRx, serialTx, usbParser, crsf,
                   usb_host_last_activity_ms>>

RunTiming ==
    /\ crsfUart.txCallCount < MaxTx
    /\ parser.framesReceived < MaxModuleFrames
    /\ \E fresh \in TimingFresh : RunWith(fresh)

HostTiming ==
    /\ cdcParser.framesReceived < MaxHostFrames
    /\ \E c \in {RCFrameCenter, PingFrame} : HandleSerialWith(c)

NextTiming == TickForward \/ TxComplete \/ RunTiming \/ HostTiming

SpecTiming == Init /\ [][NextTiming]_vars

(***************************************************************************)
(* ModuleSync on its own: timing updates with refresh periods and offsets  *)
(* inside and outside the accepted range, and period requests between      *)
(* them.                                                                   *)
(***************************************************************************)
SyncRates == {-5, 0, 500, 900, 1000, 2000, 4000, 50000, 50100, 60000}

SyncLags == {-60000, -3000, -1, 0, 1, 300, 3000, 49000, 60000}

\* the timing callback: moduleSync.updateTiming(refreshRate, inputLag)
TimingUpdate ==
    /\ \E r \in SyncRates, o \in SyncLags :
         moduleSync' = updateTiming(moduleSync, r, o, now)
    /\ UNCHANGED <<now, cdcParser, parser, rcChannels, crsfTask, crsfUart,
                   serialRx, serialTx, usbParser, crsf,
                   usb_host_last_activity_ms>>

\* the remaining offset is followed up to this magnitude
MaxLag == 70000

\* a call of moduleSync.getAdjustedPeriod()
PeriodRequest ==
    /\ moduleSync.inputLag \in -MaxLag..MaxLag
    /\ moduleSync' = getAdjustedPeriod(moduleSync).sync
    /\ UNCHANGED <<now, cdcParser, parser, rcChannels, crsfTask, crsfUart,
                   serialRx, serialTx, usbParser, crsf,
                   usb_host_last_activity_ms>>

NextSync == TimingUpdate \/ PeriodRequest

SpecSync == Init /\ [][NextSync]_vars

(***************************************************************************)
(* The host link one byte at a time, with time passing between bytes and   *)
(* the statistics reset at any moment.                                     *)
(***************************************************************************)
InitHostBytes ==
    /\ InitCommon
    /\ crsfUart = InitUart
    /\ serialRx \in Streams(MaxSegments)

\* variant: the reset clears the liveness timestamp along with the counters
ResetStats_all ==
    /\ cdcParser' = [cdcParser EXCEPT !.framesReceived = 0,
                                      !.crcErrors = 0,
                                      !.rcFramesReceived = 0,
                                      !.forwardedFrames = 0,
                                      !.lastRCFrameTime = 0]
    /\ UNCHANGED <<now, parser, moduleSync, rcChannels, crsfTask, crsfUart,
                   serialRx, serialTx, usbParser, crsf,
                   usb_host_last_activity_ms>>

\* CDCParser::resetStats
ResetStats ==
    /\ cdcParser' = [cdcParser EXCEPT !.framesReceived = 0,
                                      !.crcErrors = 0,
                                      !.rcFramesReceived = 0,
                                      !.forwardedFrames = 0]
    /\ UNCHANGED <<now, parser, moduleSync, rcChannels, crsfTask, crsfUart,
                   serialRx, serialTx, usbParser, crsf,
                   usb_host_last_activity_ms>>

NextHostBytes == HostByte \/ Tick \/ ResetStats

SpecHostBytes == InitHostBytes /\ [][NextHostBytes]_vars

(***************************************************************************)
(* The channel codec end to end: the channel set holds values the host has *)
(* sent, a poll packs them into a channel frame, and the frame is decoded  *)
(* again by the host link assembler.                                       *)
(***************************************************************************)
CodecValues == {0, 1, 1023, 1024, 2047}

\* channel arrays: one slot apart from the rest, a step, alternating slots
ChannelPatterns ==
    {[i \in 1..NUM_CHANNELS |-> IF i = j THEN v ELSE w] :
        j \in 1..NUM_CHANNELS, v \in CodecValues, w \in CodecValues}
    \cup {[i \in 1..NUM_CHANNELS |-> IF i <= j THEN v ELSE w] :
        j \in 1..NUM_CHANNELS, v \in CodecValues, w \in CodecValues}
    \cup {[i \in 1..NUM_CHANNELS |-> IF i % 2 = 0 THEN v ELSE w] :
        v \in CodecValues, w \in CodecValues}
    \cup {RampChannels}

\* bit n (from 0) of the wire bitstream of the channel array x: eleven bits
\* per channel, least significant bit first
ChanBit(x, n) == (x[(n \div 11) + 1] \div Pow2(n % 11)) % 2

\* the 22 payload bytes a host puts on the wire for the channel array x
PackBits(x) ==
    [k \in 1..CRSF_RC_CHANNELS_PACKED_LEN |->
        LET B(j) == ChanBit(x, 8 * (k - 1) + j)
        IN  B(0) + 2 * B(1) + 4 * B(2) + 8 * B(3) + 16 * B(4) + 32 * B(5)
              + 64 * B(6) + 128 * B(7)]

\* the state after the host has sent one channel frame carrying x at time 1
InitCodec ==
    /\ now = 1
    /\ parser = InitParser
    /\ moduleSync = [refreshRate |-> 0, inputLag |-> 0, lastUpdate |-> 0,
                     valid |-> FALSE]
    /\ crsfTask = [lastRCFrameTime |-> 0, rcFramesSent |-> 0,
                   outputFrameBuffer |-> Zeros(CRSF_MAX_FRAME_SIZE),
                   outputFrameLength |-> 0, outputFramePending |-> FALSE]
    /\ serialTx = [writeCallCount |-> 0, last |-> << >>, printfCount |-> 0]
    /\ crsfUart = InitUart
    /\ serialRx = << >>
    /\ usbParser = InitUsbParser
    /\ crsf = InitCrsf
    /\ usb_host_last_activity_ms = 0
    /\ \E x \in ChannelPatterns :
         LET f == MkFrame(CRSF_ADDRESS_MODULE, CRSF_FRAMETYPE_RC_CHANNELS,
                          PackBits(x))
         IN  /\ rcChannels = x
             /\ cdcParser = [InitCDCParser EXCEPT
                               !.rxBuffer = Memcpy(@, f, Len(f)),
                               !.rxBufferIndex = Len(f),
                               !.rxFrameLength = Len(f),
                               !.framesReceived = 1,
                               !.rcFramesReceived = 1,
                               !.lastRCFrameTime = 1]

\* loop(): crsfTask.run() with nothing received from the module
PollChannels ==
    /\ crsfUart.txCallCount < MaxTx
    /\ RunWith(<< >>)

\* the frame the bridge has put on the link is written back to it by the host
HostLoopback ==
    /\ crsfUart.txCallCount > 0
    /\ cdcParser.framesReceived < MaxHostFrames
    /\ HandleSerialWith(crsfUart.tx)

NextCodec == Tick \/ PollChannels \/ HostLoopback

SpecCodec == InitCodec /\ [][NextCodec]_vars

(***************************************************************************)
(* The CRC routines on the bytes of either link: every single byte, pairs  *)
(* of bytes, and the well formed and corrupt pieces.                       *)
(***************************************************************************)
CrcStreams ==
    {<<b>> : b \in 0..255}
    \cup {<<a, b>> : a \in {0, 1, 127, 128, 213, 255}, b \in {0, 1, 128, 255}}
    \cup Segments

InitCrc ==
    /\ InitCommon
    /\ \E s \in CrcStreams :
         \/ serialRx = s /\ crsfUart = InitUart
         \/ serialRx = << >> /\ crsfUart = [InitUart EXCEPT !.rx = s]

SpecCrc == InitCrc /\ [][NextBytes]_vars

(***************************************************************************)
(* Both assemblers one byte at a time, with the statistics of either       *)
(* parser reset at any moment.                                             *)
(***************************************************************************)
\* CRSFParser::resetStats
ResetParserStats ==
    /\ parser' = [parser EXCEPT !.framesReceived = 0, !.crcErrors = 0]
    /\ UNCHANGED <<now, cdcParser, moduleSync, rcChannels, crsfTask, crsfUart,
                   serialRx, serialTx, usbParser, crsf,
                   usb_host_last_activity_ms>>

NextStats == HostByte \/ ModuleByte \/ ResetStats \/ ResetParserStats

SpecStats == InitBytes /\ [][NextStats]_vars

(***************************************************************************)
(* The channel set written one channel at a time in microseconds.          *)
(***************************************************************************)
\* channel numbers: below, at and above the ends of 1..16
ChannelArgs == {0, 1, 8, 16, 17, 255}

\* pulse widths: on both sides of the points where the result is clamped,
\* the ends of the nominal range and the ends of uint16_t
UsPoints == {0, 987, 988, 999, 1000, 1001, 1500, 2000, 2012, 2013, 65535}

\* rcChannels.setChannel(c, us)
SetChannel ==
    /\ \E c \in ChannelArgs, us \in UsPoints :
         rcChannels' = setChannel(rcChannels, c, us)
    /\ UNCHANGED <<now, cdcParser, parser, moduleSync, crsfTask, crsfUart,
                   serialRx, serialTx, usbParser, crsf,
                   usb_host_last_activity_ms>>

\* RCChannels::centerAll
CenterAll ==
    /\ rcChannels' = CenterChannels
    /\ UNCHANGED <<now, cdcParser, parser, moduleSync, crsfTask, crsfUart,
                   serialRx, serialTx, usbParser, crsf,
                   usb_host_last_activity_ms>>

NextSetChannel == SetChannel \/ CenterAll

SpecSetChannel == Init /\ [][NextSetChannel]_vars

(***************************************************************************)
(* The scheduler after a timing correction that carries a phase offset:    *)
(* time moves forward through the instants around the corrected and the    *)
(* uncorrected deadline.                                                   *)
(***************************************************************************)
OffsetPoints == {1, 1699, 1700, 1999, 2000, 2299, 2300, 3999, 4000, 4300}

OffsetFresh == {TimingFrameLag, TimingFrameLead, << >>}

TickOffset ==
    /\ \E t \in OffsetPoints : t > now /\ now' = t
    /\ UNCHANGED <<cdcParser, parser, moduleSync, rcChannels, crsfTask,
                   crsfUart, serialRx, serialTx, usbParser, crsf,
                   usb_host_last_activity_ms>>

RunOffset ==
    /\ crsfUart.txCallCount < MaxTx
    /\ parser.framesReceived < MaxModuleFrames
    /\ \E fresh \in OffsetFresh : RunWith(fresh)

NextOffset == TickOffset \/ TxComplete \/ RunOffset \/ HostTiming

SpecOffset == Init /\ [][NextOffset]_vars

(***************************************************************************)
(* The bridge relaying channel data: the host writes channel frames with   *)
(* different payloads (and other frames between them) and the scheduler    *)
(* sends channel frames at its deadlines, inside and after the failsafe    *)
(* window.                                                                 *)
(***************************************************************************)
RelayChunks == {RCFrameOnes, RCFrameMixed, Corrupt(RCFrameRamp), PingFrame}

RelayPoints == {1, 4001, 8001, 108002}

TickRelay ==
    /\ \E t \in RelayPoints : t > now /\ now' = t
    /\ UNCHANGED <<cdcParser, parser, moduleSync, rcChannels, crsfTask,
                   crsfUart, serialRx, serialTx, usbParser, crsf,
                   usb_host_last_activity_ms>>

\* loop(): handleSerialCommands(), with a frame the host has written
HostRelay ==
    /\ cdcParser.framesReceived < MaxHostFrames
    /\ cdcParser.crcErrors < MaxHostFrames
    /\ \E c \in RelayChunks : HandleSerialWith(c)

NextRelay == TickRelay \/ TxComplete \/ PollChannels \/ HostRelay

SpecRelay == Init /\ [][NextRelay]_vars

(***************************************************************************)
(* The binary host protocol one byte at a time: frames with declared       *)
(* lengths from 0 to beyond the payload buffer, with right and wrong CRC,  *)
(* each followed by a channel frame.                                       *)
(***************************************************************************)
\* a frame as a host sends it: the declared length, then the type and the
\* payload, then the CRC-8 of type and payload
UsbFrame(hlen, type, payload) ==
    <<USB_SYNC0, USB_SYNC1, hlen % 256, hlen \div 256, type>> \o payload
        \o <<crc8_d5(<<type>> \o payload)>>

\* 16 channels as little endian 16 bit values, three of them above 2047
UsbChannelPayload ==
    [k \in 1..32 |->
        LET v == IF (k + 1) \div 2 \in {3, 7, 16} THEN 2048 + 4000 * ((k + 1) \div 2)
                 ELSE 100 * ((k + 1) \div 2)
        IN  IF k % 2 = 1 THEN v % 256 ELSE v \div 256]

UsbChannelFrame == UsbFrame(33, USB_HTYPE_CHANNELS, UsbChannelPayload)

\* the declared lengths tried; a frame of declared length n >= 1 carries
\* n - 1 payload bytes
UsbLengths == {1, 2, 33, 128, 129, 130, 131}

UsbStreams ==
    {UsbFrame(n, t, [i \in 1..(n - 1) |-> (7 * i) % 256]) \o UsbChannelFrame :
        n \in UsbLengths, t \in {USB_HTYPE_CHANNELS, 4}}
    \cup {Corrupt(UsbFrame(n, 4, [i \in 1..(n - 1) |-> 255]))
            \o UsbChannelFrame : n \in UsbLengths}
    \cup {\* declared length 0: one body byte is taken all the same
          <<USB_SYNC0, USB_SYNC1, 0, 0, 4, 0>> \o UsbChannelFrame,
          <<USB_SYNC0, USB_SYNC1, 0, 0, 4, 9>> \o UsbChannelFrame,
          UsbChannelFrame \o Corrupt(UsbChannelFrame),
          <<0, USB_SYNC0, USB_SYNC0, USB_SYNC1>>}

InitUsb ==
    /\ InitCommon
    /\ crsfUart = InitUart
    /\ serialRx \in UsbStreams

\* one iteration of the loop of UsbHostParser::update
UsbByte ==
    /\ serialRx # << >>
    /\ \E calcCrc \in CrcOutcomes(usbParser) :
         LET w == USBprocessByte([parser |-> usbParser, crsf |-> crsf],
                                 Head(serialRx), calcCrc)
         IN  /\ usbParser' = w.parser
             /\ crsf' = w.crsf
    /\ usb_host_last_activity_ms' = Millis(now)
    /\ serialRx' = Tail(serialRx)
    /\ UNCHANGED <<now, cdcParser, parser, moduleSync, rcChannels, crsfTask,
                   crsfUart, serialTx>>

NextUsb == UsbByte \/ Tick

SpecUsb == InitUsb /\ [][NextUsb]_vars

(***************************************************************************)
(* Properties.                                                             *)
(***************************************************************************)
\* the step starts a transmission
Transmits == crsfUart'.txCallCount # crsfUart.txCallCount

\* the link is idle at a poll: not transmitting, or the transmission is
\* complete and the poll returns the link to receive
PollIdle == ~crsfUart.transmitting \/ crsfUart.txIdle

\* the deadline test of a poll that finds the bytes fresh in the receiver
PollDue(fresh) ==
    LET m == CRSFFeed([parser |-> parser, sync |-> moduleSync, out |-> serialTx],
                      RunSwitch(crsfUart).rx \o fresh, now)
    IN  isTimeToSendRC(crsfTask, m.sync, now).due

\* number of queued (ad-hoc) frames transmitted so far
AdHocSent == crsfUart.txCallCount - crsfTask.rcFramesSent

\* the last frame put on the link was a queued frame, not a channel frame
LastTxAdHoc ==
    /\ crsfUart.txCallCount > 0
    /\ Len(crsfUart.tx) >= 3
    /\ crsfUart.tx[3] # 22

\* C1: a step transmits (the transmit count or rcFramesSent grows) only if
\* isFailsafe() is false at that poll; while failsafe holds neither grows.
C1_NoTransmitInFailsafe ==
    [][(Transmits \/ crsfTask'.rcFramesSent # crsfTask.rcFramesSent)
          => ~isFailsafe(cdcParser, now)]_vars

\* a poll took the failsafe branch: the deadline was advanced to a time at
\* which failsafe holds, and nothing has ever been transmitted
C1_Witness ==
    /\ isFailsafe(cdcParser, now)
    /\ crsfTask.lastRCFrameTime = now
    /\ now # 0
    /\ cdcParser.rcFramesReceived > 0
    /\ crsfUart.txCallCount = 0

\* C2: with no valid channel update ever decoded failsafe is on; after an
\* update decoded at tick T (any T) failsafe is off exactly while
\* now - T <= 100000.
C2_FailsafeWindow ==
    /\ cdcParser.rcFramesReceived = 0 => isFailsafe(cdcParser, now)
    /\ cdcParser.rcFramesReceived > 0 =>
         (isFailsafe(cdcParser, now)
            <=> Sub32(now, cdcParser.lastRCFrameTime) > 100000)

\* C3: once failsafe is active it stays active, however much time passes,
\* until a fresh valid channel update is decoded.
C3_FailsafeLatched ==
    [][(/\ isFailsafe(cdcParser, now)
        /\ cdcParser.lastRCFrameTime # 0
        /\ cdcParser'.rcFramesReceived = cdcParser.rcFramesReceived)
          => isFailsafe(cdcParser', now')]_vars

\* C4: a transmission starts only in a poll of run() that finds the link in
\* receive mode, or finds the previous transmission complete and switches
\* the link back to receive first.
C4_NoOverlappingTransmit ==
    [][Transmits =>
         /\ crsfUart'.txCallCount = crsfUart.txCallCount + 1
         /\ \/ ~crsfUart.transmitting
            \/ /\ crsfUart.txIdle
               /\ crsfUart'.switchToRXCallCount
                    = crsfUart.switchToRXCallCount + 1]_vars

\* a second transmission was started after the first had been switched off
C4_Witness ==
    /\ crsfUart.txCallCount = 2
    /\ crsfUart.switchToRXCallCount = 1
    /\ crsfUart.transmitting

\* C5: a poll that finds a frame pending, the link idle, the deadline elapsed
\* and failsafe off transmits exactly the queued bytes, clears the pending
\* flag and leaves rcFramesSent alone.
C5_QueuedFrameSent ==
    [][\A fresh \in FreshBytes :
         (/\ crsfTask.outputFramePending
          /\ PollIdle
          /\ ~isFailsafe(cdcParser, now)
          /\ RunWith(fresh)
          /\ PollDue(fresh))
           => /\ Transmits
              /\ crsfUart'.tx = SubSeq(crsfTask.outputFrameBuffer, 1,
                                       crsfTask.outputFrameLength)
              /\ Len(crsfUart'.tx) = crsfTask.outputFrameLength
              /\ ~crsfTask'.outputFramePending
              /\ crsfTask'.rcFramesSent = crsfTask.rcFramesSent]_vars

\* the forwarded ping went out in place of a channel frame
C5_Witness ==
    /\ crsfUart.tx = PingFrame
    /\ crsfUart.txCallCount = 1
    /\ crsfTask.rcFramesSent = 0
    /\ ~crsfTask.outputFramePending

\* C6 as stated: the transmission that follows an ad-hoc transmission is a
\* channel frame.
C6_NextIsChannelFrame ==
    [][(Transmits /\ LastTxAdHoc) => crsfUart'.tx[3] = 22]_vars

\* C6 amended: the transmission that follows an ad-hoc transmission is a
\* channel frame provided no further frame has been accepted into the queue
\* since (every accepted frame has already been transmitted).
C6_NextIsChannelFrameUnlessRequeued ==
    [][(/\ Transmits
        /\ LastTxAdHoc
        /\ cdcParser.forwardedFrames = AdHocSent)
          => /\ Len(crsfUart'.tx) = 26
             /\ crsfUart'.tx[3] = 22
             /\ crsfTask'.rcFramesSent = crsfTask.rcFramesSent + 1]_vars

\* a queued frame went out first and a channel frame at the next deadline
C6_Witness ==
    /\ crsfUart.txCallCount = 2
    /\ crsfTask.rcFramesSent = 1
    /\ cdcParser.forwardedFrames = 1
    /\ crsfUart.tx[3] = 22

\* arguments tried on queueOutputFrame in every reachable state
QueueInputs ==
    {PingFrame, ParamReadFrame, LongFrame, LongFrame \o <<0>>, << >>}

\* C7: queueOutputFrame succeeds iff nothing is pending and length <= 64; on
\* success the slot holds the data and is pending; on failure the slot is
\* unchanged; a pending frame is never overwritten.
C7_QueueContract ==
    /\ [](\A d \in QueueInputs :
            LET r == queueOutputFrame(crsfTask, d)
            IN  /\ r.ok <=> (~crsfTask.outputFramePending /\ Len(d) <= 64)
                /\ r.ok => /\ r.task.outputFramePending
                           /\ r.task.outputFrameLength = Len(d)
                           /\ SubSeq(r.task.outputFrameBuffer, 1, Len(d)) = d
                /\ ~r.ok =>
                     /\ r.task.outputFramePending = crsfTask.outputFramePending
                     /\ r.task.outputFrameLength = crsfTask.outputFrameLength
                     /\ r.task.outputFrameBuffer = crsfTask.outputFrameBuffer)
    /\ [][(crsfTask.outputFramePending /\ crsfTask'.outputFramePending)
            => /\ crsfTask'.outputFrameLength = crsfTask.outputFrameLength
               /\ crsfTask'.outputFrameBuffer
                    = crsfTask.outputFrameBuffer]_vars

\* a forwarded command was refused because the slot was occupied
C7_Witness ==
    /\ crsfTask.outputFramePending
    /\ cdcParser.forwardedFrames = 1
    /\ cdcParser.framesReceived - cdcParser.rcFramesReceived = 2

\* the frame an assembler has just completed is intact: its length field is
\* its total length minus 2 and its last byte is the CRC-8 (polynomial 0xD5)
\* of its type and payload bytes
FrameIntact(p) ==
    LET n == p.rxFrameLength
    IN  /\ n >= 4
        /\ p.rxBuffer[2] = n - 2
        /\ p.rxBuffer[n] = CrsfCrc_calc(SubSeq(p.rxBuffer, 3, n - 1), 0)

\* the byte completes the frame being accumulated
Completes(p) ==
    p.state = "RECEIVE_DATA" /\ p.rxBufferIndex + 1 = p.rxFrameLength

HostEffect ==
    \/ cdcParser'.framesReceived # cdcParser.framesReceived
    \/ cdcParser'.rcFramesReceived # cdcParser.rcFramesReceived
    \/ cdcParser'.forwardedFrames # cdcParser.forwardedFrames
    \/ cdcParser'.lastRCFrameTime # cdcParser.lastRCFrameTime
    \/ rcChannels' # rcChannels
    \/ crsfTask' # crsfTask
    \/ serialTx'.printfCount # serialTx.printfCount

ModuleEffect ==
    \/ parser'.framesReceived # parser.framesReceived
    \/ moduleSync' # moduleSync
    \/ serialTx'.writeCallCount # serialTx.writeCallCount
    \/ serialTx'.last # serialTx.last

\* C8: a byte fed to an assembler has an effect beyond the assembler itself
\* only if it completes a frame whose CRC and length field are right.
C8_OnlyIntactFramesDispatch ==
    [][/\ HostEffect => (Completes(cdcParser) /\ FrameIntact(cdcParser'))
       /\ ModuleEffect => (Completes(parser) /\ FrameIntact(parser'))]_vars

\* both an accepted and a rejected frame have been assembled
C8_Witness ==
    \/ cdcParser.framesReceived > 0 /\ cdcParser.crcErrors > 0
    \/ parser.framesReceived > 0 /\ parser.crcErrors > 0

AssemblerInBounds(p) ==
    p.state = "RECEIVE_DATA" =>
        /\ 2 <= p.rxBufferIndex
        /\ p.rxBufferIndex < p.rxFrameLength
        /\ 4 <= p.rxFrameLength
        /\ p.rxFrameLength <= 64

\* C9: while an assembler is in RECEIVE_DATA, 2 <= rxBufferIndex <
\* rxFrameLength and 4 <= rxFrameLength <= 64.
C9_BufferBounds == AssemblerInBounds(cdcParser) /\ AssemblerInBounds(parser)

\* the last byte of a frame of the maximum length is about to be stored
C9_Witness ==
    \/ /\ cdcParser.state = "RECEIVE_DATA"
       /\ cdcParser.rxFrameLength = 64 /\ cdcParser.rxBufferIndex = 63
    \/ /\ parser.state = "RECEIVE_DATA"
       /\ parser.rxFrameLength = 64 /\ parser.rxBufferIndex = 63

\* the transitions of one assembler on the byte b
AssemblerStep(p, q, b) ==
    /\ (p.state = "WAIT_SYNC" /\ b \notin {200, 234, 236, 238}) =>
          /\ q.state = "WAIT_SYNC"
          /\ q.rxBuffer = p.rxBuffer
          /\ q.rxBufferIndex = p.rxBufferIndex
          /\ q.rxFrameLength = p.rxFrameLength
    /\ (p.state = "WAIT_SYNC" /\ b \in {200, 234, 236, 238}) =>
          q.state = "WAIT_LENGTH"
    /\ (p.state = "WAIT_LENGTH" /\ b \in 2..62) =>
          q.state = "RECEIVE_DATA" /\ q.rxFrameLength = b + 2
    /\ (p.state = "WAIT_LENGTH" /\ b \notin 2..62) => q.state = "WAIT_SYNC"
    /\ p.state = "RECEIVE_DATA" =>
          /\ q.state \in {"WAIT_SYNC", "RECEIVE_DATA"}
          /\ q.state = "WAIT_SYNC" <=> p.rxBufferIndex + 1 = p.rxFrameLength

\* C10: the transitions of both assemblers: WAIT_SYNC ignores a byte outside
\* the address whitelist; WAIT_LENGTH accepts 2..62 and resets otherwise;
\* RECEIVE_DATA returns to WAIT_SYNC exactly on the last byte of the frame.
C10_AssemblerTransitions ==
    [][/\ HostByte => AssemblerStep(cdcParser, cdcParser', Head(serialRx))
       /\ ModuleByte => AssemblerStep(parser, parser', Head(crsfUart.rx))]_vars

\* an assembler is back in WAIT_SYNC after a frame that failed the CRC check
C10_Witness ==
    \/ cdcParser.state = "WAIT_SYNC" /\ cdcParser.crcErrors > 0
    \/ parser.state = "WAIT_SYNC" /\ parser.crcErrors > 0

\* the trailing byte of the frame an assembler has just completed differs
\* from the CRC-8 of its type and payload bytes
CrcBad(q) ==
    LET n == q.rxFrameLength
    IN  q.rxBuffer[n] # CrsfCrc_calc(SubSeq(q.rxBuffer, 3, n - 1), 0)

\* C11: the byte that completes a frame with a wrong CRC raises crcErrors by
\* exactly 1, leaves the other counters, the channel set, lastRCFrameTime, the
\* timing state, the output queue and the serial output unchanged and puts the
\* assembler back in WAIT_SYNC; crcErrors changes on no other byte.
C11_CrcMismatchDropsFrame ==
    [][/\ (HostByte /\ Completes(cdcParser) /\ CrcBad(cdcParser')) =>
            /\ cdcParser'.crcErrors = cdcParser.crcErrors + 1
            /\ cdcParser'.framesReceived = cdcParser.framesReceived
            /\ cdcParser'.rcFramesReceived = cdcParser.rcFramesReceived
            /\ cdcParser'.forwardedFrames = cdcParser.forwardedFrames
            /\ cdcParser'.lastRCFrameTime = cdcParser.lastRCFrameTime
            /\ cdcParser'.state = "WAIT_SYNC"
            /\ UNCHANGED <<rcChannels, crsfTask, moduleSync, serialTx>>
       /\ (ModuleByte /\ Completes(parser) /\ CrcBad(parser')) =>
            /\ parser'.crcErrors = parser.crcErrors + 1
            /\ parser'.framesReceived = parser.framesReceived
            /\ parser'.state = "WAIT_SYNC"
            /\ UNCHANGED <<rcChannels, crsfTask, moduleSync, serialTx,
                           cdcParser>>
       /\ cdcParser'.crcErrors # cdcParser.crcErrors =>
            Completes(cdcParser) /\ CrcBad(cdcParser')
       /\ parser'.crcErrors # parser.crcErrors =>
            Completes(parser) /\ CrcBad(parser')]_vars

\* a corrupted frame has been consumed whole and nothing but the error
\* counter shows it
C11_Witness ==
    \/ /\ cdcParser.crcErrors = 1 /\ cdcParser.framesReceived = 0
       /\ serialRx = << >>
    \/ /\ parser.crcErrors = 1 /\ parser.framesReceived = 0
       /\ crsfUart.rx = << >> /\ ~crsfUart.transmitting

\* an assembler stores the byte b where the frame being received expects it
\* and touches no other byte of its buffer
BufferFollows(p, q, b) ==
    LET k == IF p.state = "RECEIVE_DATA" THEN p.rxBufferIndex + 1
             ELSE IF p.state = "WAIT_LENGTH" THEN 2 ELSE 1
    IN  /\ q.state # "WAIT_SYNC" => q.rxBuffer[k] = b
        /\ p.state = "RECEIVE_DATA" => q.rxBuffer[k] = b
        /\ \A i \in 1..64 : i # k => q.rxBuffer[i] = p.rxBuffer[i]

\* the frame completed by the byte b: the bytes fed since the start byte
FedFrame(p, b) == SubSeq(p.rxBuffer, 1, p.rxFrameLength - 1) \o <<b>>

\* C12: the byte completing a CRC-valid frame of type 0x28, 0x2C, 0x2D or 0x32
\* on the host link hands the forward callback exactly the bytes fed, once;
\* forwardedFrames grows by 1 iff the callback accepts (the slot was free),
\* and then the slot holds the identical bytes and length.
C12_ForwardTypesForwardedOnce ==
    [][HostByte =>
         LET b == Head(serialRx)
             f == FedFrame(cdcParser, b)
             n == cdcParser.rxFrameLength
             accepted == ~crsfTask.outputFramePending
         IN  /\ BufferFollows(cdcParser, cdcParser', b)
             /\ (/\ Completes(cdcParser)
                 /\ ~CrcBad(cdcParser')
                 /\ f[3] \in {40, 44, 45, 50}) =>
                   /\ accepted =>
                        /\ cdcParser'.forwardedFrames
                             = cdcParser.forwardedFrames + 1
                        /\ crsfTask'.outputFramePending
                        /\ crsfTask'.outputFrameLength = n
                        /\ SubSeq(crsfTask'.outputFrameBuffer, 1, n) = f
                   /\ ~accepted =>
                        /\ cdcParser'.forwardedFrames
                             = cdcParser.forwardedFrames
                        /\ crsfTask' = crsfTask
                   /\ cdcParser'.framesReceived = cdcParser.framesReceived + 1
             /\ ~Completes(cdcParser) =>
                   /\ crsfTask' = crsfTask
                   /\ cdcParser'.forwardedFrames = cdcParser.forwardedFrames]_vars

\* a ping was accepted into the slot and a parameter read fed after it was
\* refused
C12_Witness ==
    /\ cdcParser.forwardedFrames = 1
    /\ cdcParser.framesReceived = 2
    /\ SubSeq(crsfTask.outputFrameBuffer, 1, crsfTask.outputFrameLength)
         = PingFrame
    /\ SubSeq(cdcParser.rxBuffer, 1, 8) = ParamReadFrame
    /\ serialRx = << >>

\* the byte b completes a CRC-valid frame on the host link
HostFrameValid == Completes(cdcParser) /\ ~CrcBad(cdcParser')

ModuleFrameValid == Completes(parser) /\ ~CrcBad(parser')

\* C14: on the module link the byte completing a CRC-valid frame of a type
\* other than 0x3A passes the bytes fed, in full length, to the
\* module-to-host callback exactly once; a frame of type 0x3A, a frame with a
\* wrong CRC and an incomplete frame are never passed to it.
C14_ModuleFramesForwarded ==
    [][ModuleByte =>
         LET b == Head(crsfUart.rx)
             f == FedFrame(parser, b)
         IN  /\ BufferFollows(parser, parser', b)
             /\ (ModuleFrameValid /\ f[3] # 58) =>
                   /\ serialTx'.writeCallCount = serialTx.writeCallCount + 1
                   /\ serialTx'.last = f
                   /\ Len(serialTx'.last) = parser.rxFrameLength
             /\ (ModuleFrameValid /\ f[3] = 58) => serialTx' = serialTx
             /\ ~ModuleFrameValid => serialTx' = serialTx]_vars

\* a timing frame was decoded and kept, and the longest frame was forwarded
C14_Witness ==
    /\ parser.framesReceived = 2
    /\ moduleSync.valid
    /\ serialTx.writeCallCount = 1
    /\ serialTx.last = LongFrame
    /\ crsfUart.rx = << >>

\* the byte completes a CRC-valid frame of type 0x16 with a 22 byte payload
\* on the host link
HostChannelFrame ==
    /\ HostByte
    /\ HostFrameValid
    /\ FedFrame(cdcParser, Head(serialRx))[3] = 22
    /\ cdcParser.rxFrameLength = 26

\* C15: lastRCFrameTime changes only on the byte that completes a CRC-valid
\* frame of type 0x16 with a 22 byte payload on the host link, and becomes the
\* time of that byte; any other byte and resetStats leave it and the failsafe
\* state as they are.
C15_LivenessOnlyFromChannelFrames ==
    [][/\ cdcParser'.lastRCFrameTime # cdcParser.lastRCFrameTime =>
            HostChannelFrame /\ cdcParser'.lastRCFrameTime = now
       /\ ((HostByte \/ ResetStats) /\ ~HostChannelFrame) =>
            /\ cdcParser'.lastRCFrameTime = cdcParser.lastRCFrameTime
            /\ isFailsafe(cdcParser', now') <=> isFailsafe(cdcParser, now)]_vars

\* a channel frame was decoded at 100001 and a ping fed after it was
\* forwarded without moving the timestamp
C15_Witness ==
    /\ cdcParser.lastRCFrameTime = 100001
    /\ now = 100002
    /\ cdcParser.rcFramesReceived = 1
    /\ cdcParser.forwardedFrames = 1
    /\ cdcParser.rxBuffer[3] = 40
    /\ serialRx = << >>

\* bit k (from 0, least significant bit of the first byte first) of a payload
PayloadBit(p, k) == (p[(k \div 8) + 1] \div Pow2(k % 8)) % 2

\* channel i (from 1) of a packed payload: the eleven bits from bit 11 (i - 1)
ChannelBits(p, i) ==
    LET B(b) == PayloadBit(p, 11 * (i - 1) + b)
    IN  B(0) + 2 * B(1) + 4 * B(2) + 8 * B(3) + 16 * B(4) + 32 * B(5)
          + 64 * B(6) + 128 * B(7) + 256 * B(8) + 512 * B(9) + 1024 * B(10)

\* C16: after a valid channel frame is dispatched each of the 16 slots of the
\* channel set is the value unpacked from the payload (eleven bits per
\* channel), whatever it held before, each value is in 0..2047, and
\* rcFramesReceived is one more.
C16_ChannelsOverwrittenWholesale ==
    [][HostChannelFrame =>
         LET f == FedFrame(cdcParser, Head(serialRx))
             payload == SubSeq(f, 4, 25)
         IN  /\ DOMAIN rcChannels' = 1..16
             /\ \A i \in 1..16 :
                   /\ rcChannels'[i] = ChannelBits(payload, i)
                   /\ rcChannels'[i] \in 0..2047
             /\ f = RCFrameRamp => rcChannels' = RampChannels
             /\ cdcParser'.rcFramesReceived
                  = cdcParser.rcFramesReceived + 1]_vars

\* two channel frames were decoded and every slot holds the all-ones value
\* of the last one
C16_Witness ==
    /\ cdcParser.rcFramesReceived = 2
    /\ rcChannels = [i \in 1..16 |-> 2047]
    /\ serialRx = << >>

\* the timing state a poll works with: the state after the bytes found in the
\* receiver have been decoded
DrainedSync(fresh) ==
    CRSFFeed([parser |-> parser, sync |-> moduleSync, out |-> serialTx],
             RunSwitch(crsfUart).rx \o fresh, now).sync

\* C17: with failsafe off and the link idle a poll starts a transmission iff
\* now - lastRCFrameTime >= period, the period being 4000 when no timing
\* frame was ever decoded and R after a timing frame with refresh period R in
\* 1000..50000 and offset 0.
C17_SendIffPeriodElapsed ==
    [][\A fresh \in TimingFresh :
         LET sync == DrainedSync(fresh)
             period == IF sync.valid THEN sync.refreshRate ELSE 4000
         IN  (/\ PollIdle
              /\ ~isFailsafe(cdcParser, now)
              /\ RunWith(fresh)
              /\ sync.valid => /\ sync.inputLag = 0
                               /\ sync.refreshRate \in 1000..50000)
               => (Transmits
                     <=> Sub32(now, crsfTask.lastRCFrameTime) >= period)]_vars

\* a first frame was sent exactly 2000 us after start, the period a timing
\* frame had asked for
C17_Witness ==
    /\ moduleSync.valid
    /\ moduleSync.refreshRate = 2000
    /\ crsfUart.txCallCount = 1
    /\ crsfTask.lastRCFrameTime = 2000
    /\ now = 2000

\* x limited to the range lo..hi
Clamp(x, lo, hi) == IF x < lo THEN lo ELSE IF x > hi THEN hi ELSE x

\* C18: getAdjustedPeriod() returns 4000 and changes nothing while no update
\* was applied; otherwise, with refresh period R and remaining offset O, it
\* returns p = clamp(R + O, 1000, 50000), a value in 1000..50000, leaves
\* offset O - (p - R) and does not touch R or the validity flag.
C18_AdjustedPeriod ==
    LET g == getAdjustedPeriod(moduleSync)
        R == moduleSync.refreshRate
        O == moduleSync.inputLag
    IN  /\ ~moduleSync.valid => g.period = 4000 /\ g.sync = moduleSync
        /\ moduleSync.valid =>
             /\ g.period = Clamp(R + O, 1000, 50000)
             /\ g.period \in 1000..50000
             /\ g.sync.inputLag = O - (g.period - R)
             /\ g.sync.refreshRate = R
             /\ g.sync.valid
             /\ g.sync.lastUpdate = moduleSync.lastUpdate

\* refresh 2000 with offset -3000: a request returned the minimum 1000 and
\* consumed 1000 of the offset, leaving -2000 for the next request
C18_Witness ==
    /\ moduleSync.valid
    /\ moduleSync.refreshRate = 2000
    /\ moduleSync.inputLag = -2000

\* a transmission is in flight: committed and not yet reported complete
InFlight == crsfUart.transmitting /\ ~crsfUart.txIdle

\* C19: switchToRX() is called only at a poll that finds the link
\* transmitting with the transmission complete; a poll before completion
\* leaves the transport as it is, the first poll after completion switches
\* it to receive, and the link leaves transmit mode in no other way.
C19_SwitchOnlyAfterCompletion ==
    [][/\ crsfUart'.switchToRXCallCount # crsfUart.switchToRXCallCount =>
            /\ crsfUart.transmitting /\ crsfUart.txIdle
            /\ crsfUart'.switchToRXCallCount
                 = crsfUart.switchToRXCallCount + 1
       /\ \A fresh \in FreshBytes :
            /\ (InFlight /\ RunWith(fresh)) => crsfUart' = crsfUart
            /\ (crsfUart.transmitting /\ crsfUart.txIdle /\ RunWith(fresh)) =>
                 crsfUart'.switchToRXCallCount
                   = crsfUart.switchToRXCallCount + 1
       /\ (crsfUart.transmitting /\ ~crsfUart'.transmitting) => crsfUart.txIdle
       /\ InFlight => /\ crsfUart'.transmitting
                      /\ crsfUart'.tx = crsfUart.tx]_vars

\* the first transmission has completed and a poll has returned the link to
\* receive without starting another
C19_Witness ==
    /\ crsfUart.txCallCount = 1
    /\ crsfUart.switchToRXCallCount = 1
    /\ ~crsfUart.transmitting
    /\ crsfUart.txIdle

\* C20: a poll that finds a transmission in flight reads nothing: the
\* module-link assembler, the timing state, the serial output and the bytes
\* waiting in the receiver are unchanged; the assembler changes only at a
\* poll that finds the link in receive mode or returns it there first, and
\* bytes received during the transmission are flushed, not decoded.
C20_NoReadWhileTransmitting ==
    [][/\ \A fresh \in FreshBytes :
            /\ (InFlight /\ RunWith(fresh)) =>
                 /\ parser' = parser
                 /\ moduleSync' = moduleSync
                 /\ serialTx' = serialTx
                 /\ crsfUart'.rx = crsfUart.rx
            /\ (crsfUart.transmitting /\ fresh = << >> /\ RunWith(fresh)) =>
                 parser' = parser
       /\ parser' # parser => ~InFlight]_vars

\* bytes are waiting in the receiver while a transmission is in flight and
\* the assembler has seen none of them
C20_Witness ==
    /\ InFlight
    /\ crsfUart.rx # << >>
    /\ parser.state = "WAIT_SYNC"
    /\ parser.rxBufferIndex = 0
    /\ parser.framesReceived = 0
    /\ crsfUart.txCallCount = 1

\* C21: handling host bytes never starts a transmission, never switches the
\* link to receive and never changes the transport; a transmission starts
\* only inside a poll of run(), and a frame other than a channel frame goes
\* out only as the content of the pending output slot, which that poll
\* empties.
C21_HostNeverDrivesTransport ==
    [][/\ (cdcParser' # cdcParser \/ rcChannels' # rcChannels) =>
            crsfUart' = crsfUart
       /\ crsfUart' # crsfUart => \A c \in HostChunks : ~HandleSerialWith(c)
       /\ Transmits =>
            /\ cdcParser' = cdcParser
            /\ \E fresh \in FreshBytes : RunWith(fresh)
       /\ (Transmits /\ crsfTask'.rcFramesSent = crsfTask.rcFramesSent) =>
            /\ crsfTask.outputFramePending
            /\ ~crsfTask'.outputFramePending
            /\ crsfUart'.tx = SubSeq(crsfTask.outputFrameBuffer, 1,
                                     crsfTask.outputFrameLength)]_vars

\* a host command was accepted into the slot while a channel frame was in
\* flight, and the link is still transmitting that channel frame
C21_Witness ==
    /\ InFlight
    /\ crsfUart.tx = crsf_build_rc_frame(rcChannels)
    /\ crsfTask.outputFramePending
    /\ cdcParser.forwardedFrames = 1
    /\ crsfUart.txCallCount = 1

\* C22: whatever bytes an assembler has been fed so far, a complete CRC-valid
\* frame whose first byte arrives next is dispatched: feeding it raises
\* framesReceived by one.
C22_NextValidFrameDispatched ==
    /\ \A f \in {PingFrame, RCFrameRamp} :
          CDCFeed([cdc |-> cdcParser, ch |-> rcChannels, task |-> crsfTask,
                   out |-> serialTx], f, now).cdc.framesReceived
            = cdcParser.framesReceived + 1
    /\ \A f \in {LinkStatsFrame, TimingFrame} :
          CRSFFeed([parser |-> parser, sync |-> moduleSync, out |-> serialTx],
                   f, now).parser.framesReceived
            = parser.framesReceived + 1

\* C23: a forwarded-type command decoded while the slot holds a pending frame
\* is refused by the forward callback: the pending flag, length and bytes
\* stay as they are, forwardedFrames stays while framesReceived grows by one,
\* and the refused frame is not tried again: the slot is filled only in the
\* step that decodes and counts a frame, never by a poll.
C23_FullSlotDropsCommand ==
    [][/\ \A c \in HostChunks :
            (/\ crsfTask.outputFramePending
             /\ c[3] \in {40, 44, 45, 50}
             /\ HandleSerialWith(c)) =>
               /\ ~forwardCDCToModule(crsfTask, c).ok
               /\ crsfTask'.outputFramePending
               /\ crsfTask'.outputFrameLength = crsfTask.outputFrameLength
               /\ crsfTask'.outputFrameBuffer = crsfTask.outputFrameBuffer
               /\ crsfTask' = crsfTask
               /\ cdcParser'.forwardedFrames = cdcParser.forwardedFrames
               /\ cdcParser'.framesReceived = cdcParser.framesReceived + 1
       /\ (/\ crsfTask'.outputFramePending
           /\ \/ ~crsfTask.outputFramePending
              \/ crsfTask'.outputFrameBuffer # crsfTask.outputFrameBuffer
              \/ crsfTask'.outputFrameLength # crsfTask.outputFrameLength) =>
             /\ cdcParser'.forwardedFrames = cdcParser.forwardedFrames + 1
             /\ cdcParser'.framesReceived = cdcParser.framesReceived + 1
             /\ SubSeq(crsfTask'.outputFrameBuffer, 1,
                       crsfTask'.outputFrameLength)
                  = SubSeq(cdcParser'.rxBuffer, 1, cdcParser'.rxFrameLength)]_vars

\* a parameter read arrived while the ping was pending and was dropped; the
\* ping has since gone out, the slot is empty and the read was never queued
C23_Witness ==
    /\ cdcParser.framesReceived = 3
    /\ cdcParser.rcFramesReceived = 1
    /\ cdcParser.forwardedFrames = 1
    /\ SubSeq(cdcParser.rxBuffer, 1, 8) = ParamReadFrame
    /\ crsfUart.tx = PingFrame
    /\ ~crsfTask.outputFramePending

\* C24: for a channel array x with every element in 0..2047 the packed form
\* is 22 bytes and unpacking it gives x again: the channel frame a poll
\* builds from the channel set carries 22 payload bytes, and decoding that
\* frame leaves every slot of the channel set as it was.
C24_PackUnpackRoundTrip ==
    /\ [](LET packed == crsf_pack_channels(rcChannels)
          IN  /\ \A i \in 1..16 : rcChannels[i] \in 0..2047
              /\ Len(packed) = 22
              /\ \A k \in 1..22 : packed[k] \in 0..255
              /\ crsf_unpack_channels(packed) = rcChannels)
    /\ [][Transmits =>
            /\ Len(crsfUart'.tx) = 26
            /\ SubSeq(crsfUart'.tx, 4, 25) = crsf_pack_channels(rcChannels)
            /\ crsf_unpack_channels(SubSeq(crsfUart'.tx, 4, 25))
                 = rcChannels]_vars
    /\ [][cdcParser'.rcFramesReceived # cdcParser.rcFramesReceived =>
            /\ SubSeq(cdcParser'.rxBuffer, 1, 26) = crsfUart.tx
            /\ rcChannels' = rcChannels]_vars

\* the frame packed from alternating 0 and 2047 has been sent and decoded
\* again, and the channel set still alternates 0 and 2047
C24_Witness ==
    /\ rcChannels = [i \in 1..16 |-> IF i % 2 = 0 THEN 2047 ELSE 0]
    /\ crsfUart.txCallCount = 1
    /\ cdcParser.rcFramesReceived = 2
    /\ SubSeq(cdcParser.rxBuffer, 1, 26) = crsfUart.tx

\* the byte sequences at hand in a state: what waits on either link and what
\* either assembler has buffered
CrcInputs ==
    {serialRx, crsfUart.rx,
     SubSeq(cdcParser.rxBuffer, 1, cdcParser.rxBufferIndex),
     SubSeq(parser.rxBuffer, 1, parser.rxBufferIndex),
     SubSeq(cdcParser.rxBuffer, 3, cdcParser.rxBufferIndex),
     SubSeq(parser.rxBuffer, 3, parser.rxBufferIndex)}

\* C25: on every byte sequence the table driven crsf_crc8 returns what the
\* bit by bit CrsfCrc::calc (seed 0) and UsbHostParser::crc8_d5 return, and
\* every entry crc8_lut[b] is the bit by bit CRC (polynomial 0xD5) of the
\* single byte b.
C25_CrcImplementationsAgree ==
    \A d \in CrcInputs :
        /\ crsf_crc8(d) = CrsfCrc_calc(d, 0)
        /\ crsf_crc8(d) = crc8_d5(d)
        /\ crsf_crc8(d) \in 0..255
        /\ Len(d) = 1 =>
              /\ crc8_lut[d[1] + 1] = CrsfCrc_calc(d, 0)
              /\ crc8_lut[d[1] + 1] = crc8_d5(d)

\* the longest frame has passed the table driven CRC test of the host link
\* assembler, and the bit by bit CRC of its 61 type and payload bytes is its
\* last byte
C25_Witness ==
    /\ cdcParser.framesReceived = 1
    /\ cdcParser.crcErrors = 0
    /\ SubSeq(cdcParser.rxBuffer, 1, 64) = LongFrame
    /\ crc8_d5(SubSeq(cdcParser.rxBuffer, 3, 63)) = cdcParser.rxBuffer[64]

\* the 32 bit two's complement value of four big endian bytes
Signed32(b3, b2, b1, b0) ==
    (IF b3 >= 128 THEN b3 - 256 ELSE b3) * 16777216
        + b2 * 65536 + b1 * 256 + b0

\* tenths of a microsecond to microseconds, rounding toward zero
Tenths(v) == IF v >= 0 THEN v \div 10 ELSE -((-v) \div 10)

\* C26: on the module link the byte completing a CRC-valid frame of type
\* 0x3A with at least 11 payload bytes and payload[2] = 0x10 sets the refresh
\* period to BE32(payload[3..6]) / 10 and the offset to the signed
\* BE32(payload[7..10]) / 10, both rounded toward zero (20000 gives 2000 us),
\* and marks the timing state valid; no other byte on either link changes
\* the refresh period, the offset or the validity flag.
C26_TimingFrameDecoded ==
    [][/\ ModuleByte =>
            LET b == Head(crsfUart.rx)
                f == FedFrame(parser, b)
                n == parser.rxFrameLength
                timing == /\ ModuleFrameValid
                          /\ f[3] = 58
                          /\ n - 4 >= 11
                          /\ f[6] = 16
            IN  /\ timing =>
                     /\ moduleSync'.refreshRate
                          = Tenths(Signed32(f[7], f[8], f[9], f[10]))
                     /\ moduleSync'.inputLag
                          = Tenths(Signed32(f[11], f[12], f[13], f[14]))
                     /\ moduleSync'.valid
                /\ (timing /\ f = TimingFrame) =>
                     moduleSync'.refreshRate = 2000 /\ moduleSync'.inputLag = 0
                /\ (timing /\ f = TimingFrameNeg) =>
                     moduleSync'.refreshRate = 3999 /\ moduleSync'.inputLag = -1
                /\ ~timing => moduleSync' = moduleSync
       /\ HostByte => moduleSync' = moduleSync]_vars

\* the timing frame with refresh 39995 and offset -15 was decoded after a
\* frame of the timing type with another subcommand had been ignored
C26_Witness ==
    /\ parser.framesReceived = 2
    /\ moduleSync.valid
    /\ moduleSync.refreshRate = 3999
    /\ moduleSync.inputLag = -1
    /\ SubSeq(parser.rxBuffer, 1, 15) = TimingFrameNeg
    /\ crsfUart.rx = << >>

\* C27: updateTiming(R, O) replaces the refresh period by R and the offset by
\* O whatever they were (an offset not yet consumed is dropped, R and O are
\* not range checked) and marks the state valid; the period requested next
\* is clamp(R + O, 1000, 50000), that of the most recent update.
C27_UpdateOverwrites ==
    /\ [](\A r \in SyncRates, o \in SyncLags :
            LET s == updateTiming(moduleSync, r, o, now)
            IN  /\ s.refreshRate = r
                /\ s.inputLag = o
                /\ s.valid
                /\ getAdjustedPeriod(s).period = Clamp(r + o, 1000, 50000)
                /\ \A t \in TimingPoints :
                      isTimeToSendRC(crsfTask, s, t).due
                        <=> Sub32(t, crsfTask.lastRCFrameTime)
                              >= Clamp(r + o, 1000, 50000))
    /\ [][(moduleSync'.refreshRate # moduleSync.refreshRate
             \/ moduleSync'.valid # moduleSync.valid) =>
            /\ moduleSync'.refreshRate \in SyncRates
            /\ moduleSync'.inputLag \in SyncLags
            /\ moduleSync'.valid]_vars

\* an update with a refresh period and an offset outside the accepted
\* range has been stored as given
C27_Witness ==
    /\ moduleSync.valid
    /\ moduleSync.refreshRate = 60000
    /\ moduleSync.inputLag = -60000

\* C28: a poll that finds the link idle and the deadline elapsed sets
\* lastRCFrameTime to the current time in each of its branches (failsafe
\* skip, queued frame, channel frame); a poll before the deadline, or during
\* a transmission, leaves it alone; so in failsafe the deadline test
\* succeeds once and then not again until a full adjusted period has gone by.
C28_DeadlineAlwaysAdvanced ==
    [][\A fresh \in TimingFresh :
         LET period == getAdjustedPeriod(DrainedSync(fresh)).period
             elapsed == Sub32(now, crsfTask.lastRCFrameTime)
         IN  /\ (PollIdle /\ elapsed >= period /\ RunWith(fresh)) =>
                  /\ crsfTask'.lastRCFrameTime = now
                  /\ isFailsafe(cdcParser, now) =>
                       /\ ~Transmits
                       /\ crsfTask'
                            = [crsfTask EXCEPT !.lastRCFrameTime = now]
                  /\ ~isFailsafe(cdcParser, now) => Transmits
             /\ (PollIdle /\ elapsed < period /\ RunWith(fresh)) =>
                  /\ crsfTask' = crsfTask
                  /\ ~Transmits
             /\ (InFlight /\ RunWith(fresh)) => crsfTask' = crsfTask]_vars

\* no channel update was ever received: the poll at 4000 took the failsafe
\* branch and advanced the deadline, and nothing was transmitted
C28_Witness ==
    /\ cdcParser.rcFramesReceived = 0
    /\ isFailsafe(cdcParser, now)
    /\ crsfTask.lastRCFrameTime = 4000
    /\ now \in {4000, 49999}
    /\ crsfUart.txCallCount = 0

\* a parser record with its statistics counters set to zero
NoStats(p) ==
    [f \in DOMAIN p |->
        IF f \in {"framesReceived", "crcErrors", "rcFramesReceived",
                  "forwardedFrames"}
        THEN 0 ELSE p[f]]

\* one of the statistics counters of the parser is lower in q than in p
Decreases(p, q) ==
    \E f \in DOMAIN p \cap {"framesReceived", "crcErrors", "rcFramesReceived",
                             "forwardedFrames"} : q[f] < p[f]

\* C29: the counters of both parsers never decrease except in resetStats,
\* which sets every counter of its parser to 0 and leaves the assembler
\* state, the channel set, lastRCFrameTime and the failsafe status as they
\* are; what a byte does to an assembler, to the channel set, the queue, the
\* timing state and the serial output, and by how much it raises each
\* counter, is the same whether or not the counters were reset before it.
C29_CountersObservational ==
    [][/\ Decreases(cdcParser, cdcParser') =>
            /\ cdcParser' = NoStats(cdcParser)
            /\ isFailsafe(cdcParser', now') <=> isFailsafe(cdcParser, now)
            /\ UNCHANGED <<now, parser, moduleSync, rcChannels, crsfTask,
                           crsfUart, serialRx, serialTx>>
       /\ Decreases(parser, parser') =>
            /\ parser' = NoStats(parser)
            /\ UNCHANGED <<now, cdcParser, moduleSync, rcChannels, crsfTask,
                           crsfUart, serialRx, serialTx>>
       /\ ResetStats =>
            /\ cdcParser'.framesReceived = 0 /\ cdcParser'.crcErrors = 0
            /\ cdcParser'.rcFramesReceived = 0
            /\ cdcParser'.forwardedFrames = 0
            /\ cdcParser'.lastRCFrameTime = cdcParser.lastRCFrameTime
       /\ ResetParserStats =>
            parser'.framesReceived = 0 /\ parser'.crcErrors = 0
       /\ HostByte =>
            LET h == CDCprocessByte([cdc |-> NoStats(cdcParser),
                                     ch |-> rcChannels, task |-> crsfTask,
                                     out |-> serialTx], Head(serialRx), now)
            IN  /\ NoStats(h.cdc) = NoStats(cdcParser')
                /\ h.ch = rcChannels'
                /\ h.task = crsfTask'
                /\ h.out = serialTx'
                /\ \A f \in {"framesReceived", "crcErrors",
                              "rcFramesReceived", "forwardedFrames"} :
                      /\ h.cdc[f] = cdcParser'[f] - cdcParser[f]
                      /\ h.cdc[f] \in {0, 1}
       /\ ModuleByte =>
            LET m == CRSFprocessByte([parser |-> NoStats(parser),
                                      sync |-> moduleSync, out |-> serialTx],
                                     Head(crsfUart.rx), now)
            IN  /\ NoStats(m.parser) = NoStats(parser')
                /\ m.sync = moduleSync'
                /\ m.out = serialTx'
                /\ \A f \in {"framesReceived", "crcErrors"} :
                      /\ m.parser[f] = parser'[f] - parser[f]
                      /\ m.parser[f] \in {0, 1}]_vars

\* the host parser's counters were reset after a channel frame and a ping:
\* the channels, the timestamp and the queued ping are still there
C29_Witness ==
    /\ cdcParser.framesReceived = 0
    /\ cdcParser.rcFramesReceived = 0
    /\ cdcParser.forwardedFrames = 0
    /\ cdcParser.lastRCFrameTime = 1
    /\ ~isFailsafe(cdcParser, now)
    /\ rcChannels = RampChannels
    /\ crsfTask.outputFramePending
    /\ serialRx = << >>

\* the wire value the claim gives for a pulse width: 191 + (us - 1000) * 1601
\* / 1000 with the quotient rounded toward zero, limited to the channel bounds
WireValue(us) ==
    LET p == (us - 1000) * 1601
        q == IF p >= 0 THEN p \div 1000 ELSE -((-p) \div 1000)
    IN  Clamp(191 + q, CRSF_CHANNEL_MIN, CRSF_CHANNEL_MAX)

\* C30: setChannel(c, us) with c in 1..16 sets slot c - 1, and no other, to
\* clamp(191 + (us - 1000) * 1601 / 1000, CRSF_CHANNEL_MIN,
\* CRSF_CHANNEL_MAX); with c outside 1..16 it changes nothing; for every 16
\* bit us, below 1000 and 65535 included, the stored value lies within the
\* channel bounds.
C30_SetChannelClamps ==
    /\ [](\A c \in ChannelArgs \cup {2, 15}, us \in UsPoints :
            LET r == setChannel(rcChannels, c, us)
            IN  /\ c \in 1..16 =>
                     /\ r[c] = WireValue(us)
                     /\ r[c] \in CRSF_CHANNEL_MIN..CRSF_CHANNEL_MAX
                     /\ \A i \in 1..16 : i # c => r[i] = rcChannels[i]
                     /\ DOMAIN r = 1..16
                /\ c \notin 1..16 => r = rcChannels)
    /\ [](rcChannels = CenterChannels =>
            \A us \in 0..65535 :
                /\ microsecondsToCRSF(us) = WireValue(us)
                /\ microsecondsToCRSF(us)
                     \in CRSF_CHANNEL_MIN..CRSF_CHANNEL_MAX)
    /\ [](\A i \in 1..16 :
            rcChannels[i] \in CRSF_CHANNEL_MIN..CRSF_CHANNEL_MAX)
    /\ [][\A i \in 1..16 :
            rcChannels'[i] # rcChannels[i] =>
                /\ i \in ChannelArgs
                /\ rcChannels'[i] \in {WireValue(us) : us \in UsPoints}
                     \cup {CRSF_CHANNEL_CENTER}]_vars

\* channel 1 was set with 65535 us and channel 16 with 0 us: the first slot
\* holds the upper bound, the last the lower, the slots between the centre
C30_Witness ==
    /\ rcChannels[1] = CRSF_CHANNEL_MAX
    /\ rcChannels[16] = CRSF_CHANNEL_MIN
    /\ \A i \in 2..15 : rcChannels[i] = CRSF_CHANNEL_CENTER

\* magnitude of a signed offset
Abs(x) == IF x < 0 THEN -x ELSE x

\* C31: once an update was applied, a call of getAdjustedPeriod() never makes
\* the remaining offset larger in magnitude, makes it strictly smaller while
\* it is not 0 (so finitely many calls bring it to 0), and with offset 0
\* returns the refresh period R and leaves the timing state unchanged.
C31_OffsetConsumed ==
    [][(moduleSync.valid
          /\ moduleSync' = getAdjustedPeriod(moduleSync).sync) =>
         /\ Abs(moduleSync'.inputLag) <= Abs(moduleSync.inputLag)
         /\ moduleSync.inputLag # 0 =>
              Abs(moduleSync'.inputLag) < Abs(moduleSync.inputLag)
         /\ moduleSync.inputLag = 0 =>
              /\ getAdjustedPeriod(moduleSync).period = moduleSync.refreshRate
              /\ moduleSync' = moduleSync]_vars

\* C32: the offset of a timing correction is spent on transmit deadlines
\* only: a poll that finds the link idle and the deadline not yet elapsed
\* leaves the remaining offset as it is, and a poll that transmits takes
\* (period applied - R) from it, so that the periods applied to the
\* transmissions after the update differ from R by O in total.
C32_OffsetShiftsSchedule ==
    [][\A fresh \in OffsetFresh :
         (PollIdle /\ RunWith(fresh)) =>
            LET sync == DrainedSync(fresh)
                g == getAdjustedPeriod(sync)
                due == Sub32(now, crsfTask.lastRCFrameTime) >= g.period
            IN  /\ ~due => moduleSync'.inputLag = sync.inputLag
                /\ (due /\ Transmits) =>
                     moduleSync'.inputLag
                       = sync.inputLag - (g.period - sync.refreshRate)]_vars

\* the bytes held in the output slot
SlotBytes(task) == SubSeq(task.outputFrameBuffer, 1, task.outputFrameLength)

\* C33: the output slot is filled only with a command frame exactly as the
\* host sent it, keeps its bytes while it is pending, and is emptied only by
\* the poll that transmits exactly these bytes (not counted as a channel
\* frame); a frame is put on the link outside the channel frames only from a
\* pending slot, which that poll clears, so an accepted frame goes out once;
\* and the first poll that finds the link idle, the deadline elapsed and
\* failsafe off is such a poll.
C33_AcceptedFrameSentOnce ==
    [][/\ (~crsfTask.outputFramePending /\ crsfTask'.outputFramePending) =>
            /\ ~Transmits
            /\ \E c \in HostChunks : /\ c[3] \in CDCForwardTypes
                                     /\ SlotBytes(crsfTask') = c
       /\ (crsfTask.outputFramePending /\ crsfTask'.outputFramePending) =>
            /\ SlotBytes(crsfTask') = SlotBytes(crsfTask)
            /\ ~Transmits
       /\ (crsfTask.outputFramePending /\ ~crsfTask'.outputFramePending) =>
            /\ Transmits
            /\ crsfUart'.txCallCount = crsfUart.txCallCount + 1
            /\ crsfUart'.tx = SlotBytes(crsfTask)
            /\ crsfTask'.rcFramesSent = crsfTask.rcFramesSent
       /\ (Transmits /\ crsfTask'.rcFramesSent = crsfTask.rcFramesSent) =>
            /\ crsfTask.outputFramePending
            /\ ~crsfTask'.outputFramePending
       /\ (crsfTask.outputFramePending /\ PollIdle
             /\ ~isFailsafe(cdcParser, now)) =>
            \A fresh \in FreshBytes :
               (RunWith(fresh) /\ PollDue(fresh)) =>
                  ~crsfTask'.outputFramePending]_vars

\* two commands were accepted one after the other and each went out in its
\* own transmission, the parameter read last
C33_Witness ==
    /\ AdHocSent = 2
    /\ crsfUart.tx = ParamReadFrame
    /\ ~crsfTask.outputFramePending

\* the output slot: pending flag, length and bytes
Slot(task) == <<task.outputFramePending, task.outputFrameLength,
                task.outputFrameBuffer>>

\* C34: a poll of run() made while failsafe is active transmits nothing and
\* leaves the output slot (pending flag, length, bytes) as it was; a pending
\* slot refuses every further enqueue; and with failsafe off, the link idle
\* and the deadline elapsed the poll transmits the bytes of the pending slot.
C34_FailsafeKeepsSlot ==
    /\ [](crsfTask.outputFramePending =>
            \A d \in HostChunks :
               LET r == queueOutputFrame(crsfTask, d)
               IN  ~r.ok /\ r.task = crsfTask)
    /\ [][\A fresh \in FreshBytes :
            (isFailsafe(cdcParser, now) /\ RunWith(fresh)) =>
               /\ Slot(crsfTask') = Slot(crsfTask)
               /\ ~Transmits]_vars
    /\ [][\A fresh \in FreshBytes :
            (/\ crsfTask.outputFramePending
             /\ ~isFailsafe(cdcParser, now)
             /\ PollIdle
             /\ RunWith(fresh)
             /\ PollDue(fresh)) =>
               /\ Transmits
               /\ crsfUart'.tx = SlotBytes(crsfTask)]_vars

\* a command is waiting in the slot while failsafe is active, and a poll has
\* already skipped a deadline (advanced it to 100001) without transmitting
C34_Witness ==
    /\ crsfTask.outputFramePending
    /\ SlotBytes(crsfTask) = PingFrame
    /\ isFailsafe(cdcParser, now)
    /\ crsfTask.lastRCFrameTime = 100001
    /\ crsfUart.txCallCount = 0

\* C35: on the module link the byte completing a CRC-valid frame either
\* hands the frame to the module-to-host forwarder or stores the refresh
\* period and offset the frame carries in the timing state; no valid frame
\* passes without one of the two.
C35_NoValidFrameDiscarded ==
    [][(ModuleByte /\ ModuleFrameValid) =>
         LET f == FedFrame(parser, Head(crsfUart.rx))
         IN  \/ /\ serialTx'.writeCallCount = serialTx.writeCallCount + 1
                /\ serialTx'.last = f
             \/ /\ Len(f) >= 15
                /\ moduleSync'.valid
                /\ moduleSync'.lastUpdate = Millis(now)
                /\ moduleSync'.refreshRate
                     = Tenths(Signed32(f[7], f[8], f[9], f[10]))
                /\ moduleSync'.inputLag
                     = Tenths(Signed32(f[11], f[12], f[13], f[14]))]_vars

\* the host link assembler holds a complete CRC-valid channel frame
HoldsChannelFrame(cdc) ==
    /\ cdc.state = "WAIT_SYNC"
    /\ cdc.rxFrameLength = 26
    /\ cdc.rxBuffer[3] = 22
    /\ CDC_CrcMatches(cdc.rxBuffer, 26)

\* C36: the channel frame that would be built right after a valid channel
\* update carries the 22 payload bytes of that update (unpack followed by
\* pack is the identity on them), the channel set changes on no step other
\* than a valid update, and a channel frame transmitted while the host link
\* assembler still holds the last valid update has exactly its payload.
C36_PayloadRelayed ==
    /\ [][cdcParser'.rcFramesReceived # cdcParser.rcFramesReceived =>
            /\ HoldsChannelFrame(cdcParser')
            /\ crsf_pack_channels(rcChannels')
                 = SubSeq(cdcParser'.rxBuffer, 4, 25)
            /\ SubSeq(crsf_build_rc_frame(rcChannels'), 4, 25)
                 = SubSeq(cdcParser'.rxBuffer, 4, 25)]_vars
    /\ [][cdcParser'.rcFramesReceived = cdcParser.rcFramesReceived =>
            rcChannels' = rcChannels]_vars
    /\ [][(/\ Transmits
           /\ crsfTask'.rcFramesSent # crsfTask.rcFramesSent
           /\ HoldsChannelFrame(cdcParser)) =>
            /\ Len(crsfUart'.tx) = 26
            /\ SubSeq(crsfUart'.tx, 4, 25)
                 = SubSeq(cdcParser.rxBuffer, 4, 25)]_vars

\* two channel frames went out, the second with the mixed payload of the
\* second of two updates
C36_Witness ==
    /\ crsfTask.rcFramesSent = 2
    /\ cdcParser.rcFramesReceived = 2
    /\ crsfUart.tx = RCFrameMixed
    /\ HoldsChannelFrame(cdcParser)

\* the frame is a well-formed channel frame: 26 bytes, 0xEE, 24, 0x16, 22
\* payload bytes and the CRC-8 (polynomial 0xD5, computed bit by bit) of the
\* type and payload bytes
WellFormedRC(f) ==
    /\ Len(f) = 26
    /\ \A k \in 1..26 : f[k] \in 0..255
    /\ f[1] = 238 /\ f[2] = 24 /\ f[3] = 22
    /\ f[26] = crc8_d5(SubSeq(f, 3, 25))

\* C37: the channel frame built from a channel set with values in 0..2047 is
\* well formed; fed byte by byte to a host link assembler in WAIT_SYNC that
\* holds another channel set, it is accepted without a CRC error and leaves
\* the 16 values it was built from; a module link assembler in WAIT_SYNC
\* accepts it too; and so it is for the frame a poll transmits when the host
\* writes it back.
C37_BuiltFrameAccepted ==
    /\ []((crsfUart.txCallCount = 0 /\ now = 1) =>
            LET f == crsf_build_rc_frame(rcChannels)
                h == CDCFeed([cdc |-> InitCDCParser, ch |-> CenterChannels,
                              task |-> crsfTask, out |-> serialTx], f, now)
                m == CRSFFeed([parser |-> InitParser, sync |-> moduleSync,
                               out |-> serialTx], f, now)
            IN  /\ \A i \in 1..16 : rcChannels[i] \in 0..2047
                /\ WellFormedRC(f)
                /\ h.cdc.state = "WAIT_SYNC"
                /\ h.cdc.crcErrors = 0
                /\ h.cdc.framesReceived = 1
                /\ h.cdc.rcFramesReceived = 1
                /\ h.ch = rcChannels
                /\ m.parser.state = "WAIT_SYNC"
                /\ m.parser.crcErrors = 0
                /\ m.parser.framesReceived = 1)
    /\ [][Transmits => WellFormedRC(crsfUart'.tx)]_vars
    /\ [][(crsfUart.txCallCount > 0 /\ cdcParser' # cdcParser) =>
            /\ cdcParser.state = "WAIT_SYNC"
            /\ HandleSerialWith(crsfUart.tx)
            /\ cdcParser'.state = "WAIT_SYNC"
            /\ cdcParser'.crcErrors = cdcParser.crcErrors
            /\ cdcParser'.framesReceived = cdcParser.framesReceived + 1
            /\ cdcParser'.rcFramesReceived = cdcParser.rcFramesReceived + 1
            /\ crsf_unpack_channels(SubSeq(cdcParser'.rxBuffer, 4, 25))
                 = rcChannels]_vars

\* the frame built from sixteen channels at 2047 was transmitted, written
\* back by the host and accepted
C37_Witness ==
    /\ rcChannels = [i \in 1..16 |-> 2047]
    /\ crsfUart.txCallCount = 1
    /\ cdcParser.framesReceived = 2
    /\ cdcParser.crcErrors = 0
    /\ SubSeq(cdcParser.rxBuffer, 1, 26) = crsfUart.tx

\* C38: on the host link the byte completing a CRC-valid frame of type 0x16
\* whose payload is not 22 bytes long raises framesReceived by 1 and changes
\* nothing else: the channel set, rcFramesReceived, lastRCFrameTime (and so
\* the failsafe state), crcErrors, forwardedFrames, the output slot and the
\* serial output stay as they were; so it is for channel-type frames with 21
\* and with 23 payload bytes fed to an assembler in WAIT_SYNC.
C38_WrongLengthChannelFrame ==
    /\ [][(/\ HostByte
           /\ HostFrameValid
           /\ FedFrame(cdcParser, Head(serialRx))[3] = 22
           /\ cdcParser.rxFrameLength # 26) =>
            /\ cdcParser'.framesReceived = cdcParser.framesReceived + 1
            /\ cdcParser'.crcErrors = cdcParser.crcErrors
            /\ cdcParser'.rcFramesReceived = cdcParser.rcFramesReceived
            /\ cdcParser'.forwardedFrames = cdcParser.forwardedFrames
            /\ cdcParser'.lastRCFrameTime = cdcParser.lastRCFrameTime
            /\ isFailsafe(cdcParser', now') <=> isFailsafe(cdcParser, now)
            /\ UNCHANGED <<rcChannels, crsfTask, moduleSync, parser,
                           crsfUart, serialTx>>]_vars
    /\ [](cdcParser.state = "WAIT_SYNC" =>
            \A f \in {RCFrameShort21, RCFrameLong23, RCFrameTruncated} :
               LET h == CDCFeed([cdc |-> cdcParser, ch |-> rcChannels,
                                 task |-> crsfTask, out |-> serialTx], f, now)
               IN  /\ h.cdc.state = "WAIT_SYNC"
                   /\ h.cdc.framesReceived = cdcParser.framesReceived + 1
                   /\ h.cdc.crcErrors = cdcParser.crcErrors
                   /\ h.cdc.rcFramesReceived = cdcParser.rcFramesReceived
                   /\ h.cdc.forwardedFrames = cdcParser.forwardedFrames
                   /\ h.cdc.lastRCFrameTime = cdcParser.lastRCFrameTime
                   /\ h.ch = rcChannels
                   /\ h.task = crsfTask
                   /\ h.out = serialTx)

\* after a channel update at 100001 had set every slot to 2047, the channel
\* type frame with a two byte payload was counted and left the slots alone
C38_Witness ==
    /\ cdcParser.framesReceived = 2
    /\ cdcParser.rcFramesReceived = 1
    /\ cdcParser.lastRCFrameTime = 100001
    /\ rcChannels = [i \in 1..16 |-> 2047]
    /\ SubSeq(cdcParser.rxBuffer, 1, 6) = RCFrameTruncated
    /\ cdcParser.state = "WAIT_SYNC"
    /\ serialRx = << >>

\* an upper bound on the bytes an assembler still takes before it is back in
\* WAIT_SYNC: the bytes missing from the frame in RECEIVE_DATA, the length
\* byte and the longest frame body in WAIT_LENGTH
BytesToSync(p) ==
    CASE p.state = "WAIT_SYNC" -> 0
      [] p.state = "WAIT_LENGTH" -> 63
      [] p.state = "RECEIVE_DATA" -> p.rxFrameLength - p.rxBufferIndex

\* the number of bytes of value b, counted in k and at most n more, the host
\* link assembler takes from the state h until it is in WAIT_SYNC
RECURSIVE HostBytesUntilSync(_, _, _, _)
HostBytesUntilSync(h, b, n, k) ==
    IF h.cdc.state = "WAIT_SYNC" \/ n = 0 \/ k < 0 THEN k
    ELSE HostBytesUntilSync(CDCprocessByte(h, b, now), b, n - 1, k + 1)

\* the same for the module link assembler
RECURSIVE ModuleBytesUntilSync(_, _, _, _)
ModuleBytesUntilSync(m, b, n, k) ==
    IF m.parser.state = "WAIT_SYNC" \/ n = 0 \/ k < 0 THEN k
    ELSE ModuleBytesUntilSync(CRSFprocessByte(m, b, now), b, n - 1, k + 1)

\* C39: an assembler out of WAIT_SYNC is never more than 63 bytes away from
\* it (1 in WAIT_LENGTH plus at most 62 in RECEIVE_DATA), and every byte,
\* whatever its value, brings it strictly closer; fed one value over and
\* over (a start byte, a valid length, anything else) it is in WAIT_SYNC
\* after at most 63 bytes.
C39_BackToSyncWithin63 ==
    LET h == [cdc |-> cdcParser, ch |-> rcChannels, task |-> crsfTask,
              out |-> serialTx]
        m == [parser |-> parser, sync |-> moduleSync, out |-> serialTx]
    IN  /\ BytesToSync(cdcParser) \in 0..63
        /\ BytesToSync(parser) \in 0..63
        /\ cdcParser.state = "RECEIVE_DATA" => BytesToSync(cdcParser) \in 1..62
        /\ parser.state = "RECEIVE_DATA" => BytesToSync(parser) \in 1..62
        /\ cdcParser.state # "WAIT_SYNC" =>
              \A b \in 0..255 :
                 BytesToSync(CDCprocessByte(h, b, now).cdc)
                    < BytesToSync(cdcParser)
        /\ parser.state # "WAIT_SYNC" =>
              \A b \in 0..255 :
                 BytesToSync(CRSFprocessByte(m, b, now).parser)
                    < BytesToSync(parser)
        /\ \A b \in {0, 2, 62, 63, 200, 238, 255} :
              /\ HostBytesUntilSync(h, b, 64, 0) <= BytesToSync(cdcParser)
              /\ ModuleBytesUntilSync(m, b, 64, 0) <= BytesToSync(parser)

\* an assembler has just taken the length byte of the longest frame: 62
\* bytes are missing
C39_Witness ==
    \/ /\ cdcParser.state = "RECEIVE_DATA"
       /\ cdcParser.rxFrameLength - cdcParser.rxBufferIndex = 62
    \/ /\ parser.state = "RECEIVE_DATA"
       /\ parser.rxFrameLength - parser.rxBufferIndex = 62

\* C40: every byte leaves hbuf 128 bytes long; a payload byte is stored at
\* an index below 128 or not at all; in USB_S5_CRC the CRC is computed over
\* no more than the 129 bytes of the scratch buffer (the type and the copy
\* of hbuf), whatever the declared length; and the byte taken in USB_S5_CRC
\* leaves the parser in USB_S0.
C40_UsbBuffersInBounds ==
    [][UsbByte =>
         LET u == usbParser
             b == Head(serialRx)
         IN  /\ Len(usbParser'.hbuf) = USB_HBUF_SIZE
             /\ u.state # "USB_S4_BODY" => usbParser'.hbuf = u.hbuf
             /\ (u.state = "USB_S4_BODY" /\ usbParser'.hbuf # u.hbuf) =>
                   /\ u.hpos - 1 \in 0..(USB_HBUF_SIZE - 1)
                   /\ usbParser'.hbuf = [u.hbuf EXCEPT ![u.hpos] = b]
             /\ u.state = "USB_S5_CRC" =>
                   /\ CrcReadLen(u) <= 1 + USB_HBUF_SIZE
                   /\ CrcReadLen(u) <= Len(TmpWritten(u))
                   /\ usbParser'.state = "USB_S0"]_vars

====
